---- MODULE Spec2Model ----
(***************************************************************************)
(* College_Media direct messaging: the message store (models/Message.js),  *)
(* the REST controller (controllers/messageController.js), the offline     *)
(* delivery queue (workers/messageQueue.js) and the presence/transport hub *)
(* (the socket server).  Every handler is split at its awaits: a database  *)
(* read takes a snapshot of the document, the code between two awaits runs *)
(* atomically, and a document's save() writes only the paths the handler   *)
(* modified on its snapshot.                                               *)
(***************************************************************************)
EXTENDS Integers, Sequences, FiniteSets, Bags, TLC

\* ------------------------------------------------------------------ bounds
MaxMsgs == 2        \* message and conversation ids; sendMessage requests of SpecSend
MaxQueued == 1      \* sendMessage requests of SpecDelivery
MaxStored == 1      \* sendMessage requests of SpecStore
MaxSweeps == 2      \* processQueue runs that may overlap
MaxPending == 1     \* deliverPendingMessages calls in flight
MaxRequests == 1    \* markRead requests in flight
MaxDeletes == 2     \* deleteMessage requests in flight
MaxSockets == 1     \* live socket connections
MaxTimers == 1      \* offline-broadcast timers pending
MaxLive == 2        \* live socket connections of SpecPresence
MaxGrace == 2       \* offline-broadcast timers pending in SpecPresence
MaxLimit == 2       \* largest page size asked of getConversationMessages
MaxLen == 2         \* longest plaintext, in UTF-16 code units
MaxRuns == 1        \* processQueue runs in flight in SpecDrain
MaxInbox == 1       \* status events on their way to one session
MaxTyping == 2      \* longest typingUsers list of a conversation

\* --------------------------------------------------------------- constants
maxRetries == 10
PendingLimit == 100
DefaultLimit == 50

Users == {"A", "B", "C"}
None == "none"
ConvIds == 1..MaxMsgs
MsgIds == 1..MaxMsgs
NoResponse == [op |-> "none", status |-> 0]
NoStatus == [userId |-> None, status |-> "none"]
NoReturn == [value |-> "none", at |-> "none"]

VARIABLES
    conversations,   \* Conversation collection: Seq of [participants, lastMessage]
    messages,        \* Message collection: Seq of documents, _id = index
    queue,           \* MessageQueue.queue, a Map in insertion order:
                     \*   Seq of [userId, messages: Seq of [messageId, retries]]
    isRunning,       \* MessageQueue.isRunning
    connectedUsers,  \* socket server's connectedUsers Map (its keys)
    sockets,         \* live connections: set of [userId, n, rooms]
    timers,          \* pending offline-broadcast timers, by user (a bag)
    statusEvent,     \* the last `user:status` broadcast: [userId, status]
    sends,           \* sendMessage requests between awaits (a bag)
    reads,           \* markRead requests between awaits (a bag)
    deletes,         \* deleteMessage requests between awaits (a bag)
    sweeps,          \* processQueue runs between awaits (a bag)
    pendings,        \* deliverPendingMessages calls between awaits (a bag)
    emitted,         \* per message: pushes of its content the server emitted
    received,        \* per message: pushes that reached a socket of its recipient
    deliveredNotices,\* per message: `messages:delivered` notices emitted to its sender
    deletedEvents,   \* messages for which `message:deleted` was emitted
    readEvents,      \* `message:read` events emitted to senders: [messageId, readBy]
    response,        \* the HTTP response the last step produced, if any
    authResult,      \* outcome of the last socket handshake: "none", "admitted"
                     \*   or the error the middleware passed to next()
    keyStore,        \* per user: the session's EncryptionUtils.localKeyStore
    socketState,     \* per user: the session's `socket` state (0 is null)
    handlerSocket,   \* per user: the `socket` the handlers registered by the
                     \*   session's last connect() see
    handled,         \* per message: pushes of it the recipient's session handled
    clientMessages,  \* per user: the session's `messages` state, a Seq of
                     \*   [conversationId, messageId, localId, status,
                     \*   decryptedContent]: the key it is listed under; the
                     \*   server's _id (0 for a `local_` entry); the `local_` id
                     \*   it has or replaced (0 for a pushed copy)
    emits,           \* per message: `message:delivered` receipts sessions
                     \*   emitted for it
    receipts,        \* receipts on their way to the server (a bag)
    relayedReceipts, \* receipts the server relayed to the conversation room
    inbound,         \* `message:new` events on their way to a session (a bag):
                     \*   [to, n, messageId, shape], shape "relay" for what the
                     \*   message:send handler relays, "message" for what the
                     \*   REST handler pushes to a socket of another user than
                     \*   the recipient
    keyEvents,       \* `keys:received` events on their way to a session (a bag)
    posts,           \* sendMessage calls of sessions awaiting their REST answer (a bag)
    sealed,          \* the last encrypt call: its arguments and its result
    opened,          \* the last decrypt call: its key and its result
    returned,        \* the session sendMessage call that ended last: what it
                     \*   returned and at which step
    statusInbox,     \* per user: status events on their way to the session,
                     \*   in the order the server emitted them
    typingTimeoutRef,\* per user and conversation: typingTimeoutRef.current[c],
                     \*   a timer id (0 is undefined)
    timeouts,        \* pending setTimeout callbacks of sendTyping:
                     \*   set of [userId, conversationId, id]
    lastTyping,      \* per user and conversation: the typing event the session
                     \*   emitted last
    typingEvents,    \* relayed typing events on their way to a session (a bag)
    typingUsers,     \* per user and conversation: the session's typingUsers[c]
    mockMessages,    \* the mock message store of the legacy send route
    notifying        \* legacy send requests awaiting callDependency (a bag)

vars == <<conversations, messages, queue, isRunning, connectedUsers, sockets,
          timers, statusEvent, sends, reads, deletes, sweeps, pendings, emitted, received,
          deliveredNotices, deletedEvents, readEvents, response, authResult,
          keyStore, socketState, handlerSocket, handled, clientMessages, emits,
          receipts, relayedReceipts, inbound, keyEvents, posts, sealed, opened,
          returned, statusInbox, typingTimeoutRef, timeouts, lastTyping,
          typingEvents, typingUsers, mockMessages, notifying>>

store == <<conversations, messages>>
hub == <<connectedUsers, sockets, timers, statusEvent>>
tasks == <<sends, reads, deletes, sweeps, pendings>>
outputs == <<emitted, received, deliveredNotices, deletedEvents, readEvents>>
\* what the REST handlers, the queue worker and the presence handlers never
\* touch: the handshake's outcome, the client sessions, the encryption calls
client == <<keyStore, socketState, handlerSocket, handled, clientMessages, emits,
            receipts, relayedReceipts, inbound, keyEvents, posts>>
crypto == <<sealed, opened>>
\* the rest of a session: the outcome of sendMessage, the status events, the
\* typing indicators
typing == <<typingTimeoutRef, timeouts, lastTyping, typingEvents, typingUsers>>
ui == <<returned, statusInbox, typing>>
\* the legacy send route
legacy == <<mockMessages, notifying>>
ext == <<authResult, client, crypto, ui, legacy>>

\* ----------------------------------------------------------------- helpers
Range(s) == {s[i] : i \in DOMAIN s}

Count(s, x) == Cardinality({i \in DOMAIN s : s[i] = x})

RECURSIVE SelectIdx(_, _, _)
\* the subsequence of s at the indices in keep, in order (Array.prototype.filter)
SelectIdx(s, keep, i) ==
    IF i > Len(s) THEN <<>>
    ELSE (IF i \in keep THEN <<s[i]>> ELSE <<>>) \o SelectIdx(s, keep, i + 1)

Take(s, n) == IF Len(s) <= n THEN s ELSE SubSeq(s, 1, n)

AddTask(bag, t) == bag (+) SetToBag({t})
DropTask(bag, t) == bag (-) SetToBag({t})

\* ---------------------------------------------------------- faulty variants
\* Deliberately wrong versions of definitions below.  Each property that
\* is claimed to hold is also checked with one of these substituted for the
\* definition it varies, and must then fail.

\* markDelivered that promotes the status whatever it was
markDelivered_promotesAlways(doc, userId) ==
    IF userId \notin Range(doc.deliveredTo)
    THEN [doc EXCEPT !.deliveredTo = Append(@, userId), !.status = "delivered"]
    ELSE doc

\* softDelete that ignores its userId and deletes for everyone
softDelete_forEveryone(doc, userId) == [doc EXCEPT !.deleted = TRUE]

\* sendMessage validation that rejects content only when both encrypted and
\* iv are missing
sendMessageStatus_eitherField(senderId, conversationId, recipientId, content) ==
    IF ~content.encrypted /\ ~content.iv THEN 400
    ELSE IF conversationId # 0
         THEN IF \/ conversationId \notin DOMAIN conversations
                 \/ senderId \notin conversations[conversationId].participants
              THEN 403 ELSE 200
         ELSE IF recipientId # None THEN 200 ELSE 400

\* conversation resolution that creates without looking up
sendMessageConversations_noLookup(senderId, conversationId, recipientId) ==
    IF conversationId # 0 THEN conversations
    ELSE Append(conversations,
                [participants |-> {senderId, recipientId}, lastMessage |-> 0])

\* queueMessage that replaces the recipient's array instead of appending to it
queueMessage_replaces(messageId, recipientId) ==
    LET entry == [messageId |-> messageId, retries |-> 0]
    IN IF \E i \in DOMAIN queue : queue[i].userId = recipientId
       THEN [i \in DOMAIN queue |->
                IF queue[i].userId = recipientId
                THEN [queue[i] EXCEPT !.messages = <<entry>>]
                ELSE queue[i]]
       ELSE Append(queue, [userId |-> recipientId, messages |-> <<entry>>])

\* socket authentication that lets a banned account in
socketAuthMiddleware_suspendedOnly(token, found) ==
    IF token = "missing" THEN "Authentication token required"
    ELSE IF token = "expired" THEN "Token expired"
    ELSE IF token = "invalid" THEN "Invalid token"
    ELSE IF token = "notBefore" THEN "Authentication failed"
    ELSE IF found = "absent" THEN "User not found"
    ELSE IF found = "suspended" THEN "Account suspended"
    ELSE "ok"

\* deleteMessage without the sender check
deleteMessageStatus_noSenderCheck(userId, forEveryone, doc) == 200

\* markAllRead that forgets the conversation
markAllRead_anyConversation(userId, conversationId) ==
    [i \in DOMAIN messages |->
        IF /\ messages[i].recipient = userId
           /\ messages[i].status \in {"sent", "delivered"}
        THEN [messages[i] EXCEPT !.status = "read", !.readBy = Append(@, userId)]
        ELSE messages[i]]

\* getPendingMessages that matches the user as the sender
getPendingMessages_bySender(userId) ==
    LET match == {i \in DOMAIN messages : /\ messages[i].sender = userId
                                          /\ messages[i].status = "sent"
                                          /\ ~messages[i].deleted}
        ids == [i \in 1..Len(messages) |-> i]
    IN Take(SelectIdx(ids, match, 1), PendingLimit)

\* ------------------------------------------------- Message model (methods)
NewMessage(conv, sender, recipient, content) ==
    [conversationId |-> conv, sender |-> sender, recipient |-> recipient,
     content |-> content, status |-> "sent", deliveredTo |-> <<>>, readBy |-> <<>>,
     deleted |-> FALSE, deletedFor |-> <<>>]

\* messageSchema.methods.markDelivered, on the document in memory
markDelivered(doc, userId) ==
    LET alreadyDelivered == userId \in Range(doc.deliveredTo)
    IN IF ~alreadyDelivered
       THEN [doc EXCEPT !.deliveredTo = Append(@, userId),
                        !.status = IF @ = "sent" THEN "delivered" ELSE @]
       ELSE doc

\* messageSchema.methods.markRead, on the document in memory
markRead(doc, userId) ==
    LET alreadyRead == userId \in Range(doc.readBy)
    IN IF ~alreadyRead
       THEN [doc EXCEPT !.readBy = Append(@, userId), !.status = "read"]
       ELSE doc

\* messageSchema.methods.softDelete, on the document in memory
softDelete(doc, userId) ==
    IF userId # None
    THEN IF userId \notin Range(doc.deletedFor)
         THEN [doc EXCEPT !.deletedFor = Append(@, userId)]
         ELSE doc
    ELSE [doc EXCEPT !.deleted = TRUE]

\* this.save(): the update sent to the database holds the paths modified since
\* the document was loaded ($set for scalars, $push for array appends) and is
\* applied to the stored document as it is then.
save(stored, loaded, modified) ==
    [stored EXCEPT
        !.status = IF modified.status # loaded.status THEN modified.status ELSE @,
        !.deleted = IF modified.deleted # loaded.deleted THEN modified.deleted ELSE @,
        !.deliveredTo = @ \o SubSeq(modified.deliveredTo, Len(loaded.deliveredTo) + 1,
                                    Len(modified.deliveredTo)),
        !.readBy = @ \o SubSeq(modified.readBy, Len(loaded.readBy) + 1,
                               Len(modified.readBy)),
        !.deletedFor = @ \o SubSeq(modified.deletedFor, Len(loaded.deletedFor) + 1,
                                   Len(modified.deletedFor))]

\* messageSchema.statics.getConversationMessages: the ids returned, newest
\* first (sentAt grows with the id), at most `limit`
getConversationMessages(conversationId, limit, userId) ==
    LET match == {i \in DOMAIN messages :
                     /\ messages[i].conversationId = conversationId
                     /\ ~messages[i].deleted
                     /\ (userId # None => userId \notin Range(messages[i].deletedFor))}
        desc == [k \in 1..Len(messages) |-> Len(messages) + 1 - k]
        inOrder == SelectIdx(desc, {k \in DOMAIN desc : desc[k] \in match}, 1)
    IN Take(inOrder, limit)

\* the timestamps a cursor can hold: 0 stands for a cursor that is not given,
\* a message's sentAt is its id
Cursors == 0..(MaxMsgs + 1)

\* the sentAt condition of the query: `before` sets query.sentAt, and `after`
\* then assigns query.sentAt again
sentAtQuery(before, after, sentAt) ==
    IF after # 0 THEN sentAt > after
    ELSE IF before # 0 THEN sentAt < before
    ELSE TRUE

\* messageSchema.statics.getConversationMessages with its cursor options
getConversationMessagesOpts(conversationId, limit, before, after, userId) ==
    LET match == {i \in DOMAIN messages :
                     /\ messages[i].conversationId = conversationId
                     /\ ~messages[i].deleted
                     /\ (userId # None => userId \notin Range(messages[i].deletedFor))
                     /\ sentAtQuery(before, after, i)}
        desc == [k \in 1..Len(messages) |-> Len(messages) + 1 - k]
        inOrder == SelectIdx(desc, {k \in DOMAIN desc : desc[k] \in match}, 1)
    IN Take(inOrder, limit)

\* messageSchema.statics.getUnreadCount; conversationId 0 stands for null
getUnreadCount(userId, conversationId) ==
    Cardinality({i \in DOMAIN messages :
        /\ messages[i].recipient = userId
        /\ messages[i].status \in {"sent", "delivered"}
        /\ ~messages[i].deleted
        /\ userId \notin Range(messages[i].deletedFor)
        /\ (conversationId # 0 => messages[i].conversationId = conversationId)})

\* messageSchema.statics.markAllRead: updateMany on the stored documents
markAllRead(userId, conversationId) ==
    [i \in DOMAIN messages |->
        IF /\ messages[i].conversationId = conversationId
           /\ messages[i].recipient = userId
           /\ messages[i].status \in {"sent", "delivered"}
        THEN [messages[i] EXCEPT !.status = "read", !.readBy = Append(@, userId)]
        ELSE messages[i]]

\* ------------------------------------------------------ Conversation model
\* Conversation.findOrCreate: the conversation of the unordered pair, looked
\* up by its canonical participant pair: its index, or 0 when there is none
findConversation(a, b) ==
    IF \E i \in DOMAIN conversations : conversations[i].participants = {a, b}
    THEN CHOOSE i \in DOMAIN conversations : conversations[i].participants = {a, b}
    ELSE 0

\* Conversation.findOrCreate: the collection afterwards
findOrCreate(a, b) ==
    IF findConversation(a, b) # 0 THEN conversations
    ELSE Append(conversations, [participants |-> {a, b}, lastMessage |-> 0])

\* conversation.updateLastMessage(message)
updateLastMessage(conversationId, messageId) ==
    [conversations EXCEPT ![conversationId].lastMessage = messageId]

\* ------------------------------------------------------------ socket server
isUserOnline(userId) == userId \in connectedUsers

\* members of room `user:<userId>`: every socket joins its user's room on connect
UserRoom(userId) == {s \in sockets : s.userId = userId}

\* members of room `conversation:<conversationId>`
ConversationRoom(conversationId) == {s \in sockets : conversationId \in s.rooms}

\* 1 when an emit to the user's personal room reaches a socket of that user
sendToUser(userId) == IF UserRoom(userId) # {} THEN 1 ELSE 0

\* 1 when an emit to the conversation room reaches a socket of that user
sendToConversation(conversationId, userId) ==
    IF \E s \in ConversationRoom(conversationId) : s.userId = userId THEN 1 ELSE 0

\* broadcastUserStatus: the `user:status` event sent to every socket
broadcastUserStatus(userId, status) == [userId |-> userId, status |-> status]

\* io.on('connection'): register presence, join the personal room, broadcast
\* the online status
connection(userId) ==
    /\ LET n == CHOOSE k \in 1..(Cardinality(sockets) + 1) :
                   /\ [userId |-> userId, n |-> k] \notin
                          {[userId |-> s.userId, n |-> s.n] : s \in sockets}
                   /\ \A j \in 1..(k - 1) :
                          [userId |-> userId, n |-> j] \in
                              {[userId |-> s.userId, n |-> s.n] : s \in sockets}
       IN sockets' = sockets \cup {[userId |-> userId, n |-> n, rooms |-> {}]}
    /\ connectedUsers' = connectedUsers \cup {userId}
    /\ statusEvent' = broadcastUserStatus(userId, "online")
    /\ response' = NoResponse
    /\ UNCHANGED <<store, queue, isRunning, timers, tasks, outputs>>

\* socket.on('disconnect'): deregister presence, schedule the offline
\* broadcast
disconnect(socket) ==
    /\ socket \in sockets
    /\ sockets' = sockets \ {socket}
    /\ connectedUsers' = connectedUsers \ {socket.userId}
    /\ timers' = AddTask(timers, socket.userId)
    /\ response' = NoResponse
    /\ UNCHANGED <<store, queue, isRunning, statusEvent, tasks, outputs>>

\* the setTimeout callback of a disconnect, 5 s later
offlineTimer(userId) ==
    /\ BagIn(userId, timers)
    /\ timers' = DropTask(timers, userId)
    /\ statusEvent' = IF ~isUserOnline(userId)
                      THEN broadcastUserStatus(userId, "offline")
                      ELSE statusEvent
    /\ response' = NoResponse
    /\ UNCHANGED <<store, queue, isRunning, connectedUsers, sockets, tasks, outputs>>

\* socket.on('join:conversation')
joinConversation(socket, conversationId) ==
    /\ socket \in sockets
    /\ conversationId \notin socket.rooms
    /\ sockets' = (sockets \ {socket}) \cup
                    {[socket EXCEPT !.rooms = @ \cup {conversationId}]}
    /\ response' = NoResponse
    /\ UNCHANGED <<store, queue, isRunning, connectedUsers, timers, statusEvent,
                   tasks, outputs>>

\* socket.on('leave:conversation')
leaveConversation(socket, conversationId) ==
    /\ socket \in sockets
    /\ conversationId \in socket.rooms
    /\ sockets' = (sockets \ {socket}) \cup
                    {[socket EXCEPT !.rooms = @ \ {conversationId}]}
    /\ response' = NoResponse
    /\ UNCHANGED <<store, queue, isRunning, connectedUsers, timers, statusEvent,
                   tasks, outputs>>

\* -------------------------------------------------- socket authentication
\* what a handshake carries: no token, or a token that jwt.verify rejects as
\* expired, as malformed or wrongly signed, as not yet active, or accepts
TokenKinds == {"missing", "expired", "invalid", "notBefore", "valid"}

\* what User.findById finds for the token's user id
Lookups == {"absent", "active", "suspended", "banned"}

\* socketAuthMiddleware: "ok" when it calls next(), else the message of the
\* error it passes to next
socketAuthMiddleware(token, found) ==
    IF token = "missing" THEN "Authentication token required"
    ELSE IF token = "expired" THEN "Token expired"
    ELSE IF token = "invalid" THEN "Invalid token"
    ELSE IF token = "notBefore" THEN "Authentication failed"
    ELSE IF found = "absent" THEN "User not found"
    ELSE IF found = "suspended" \/ found = "banned" THEN "Account suspended"
    ELSE "ok"

\* io.use(socketAuthMiddleware), then io.on('connection') for the admitted
handshake(userId, token, found) ==
    IF socketAuthMiddleware(token, found) # "ok"
    THEN /\ authResult' = socketAuthMiddleware(token, found)
         /\ response' = NoResponse
         /\ UNCHANGED <<store, queue, isRunning, hub, tasks, outputs, client, crypto, ui, legacy>>
    ELSE /\ authResult' = "admitted"
         /\ connection(userId)
         /\ UNCHANGED <<client, crypto, ui, legacy>>

\* ------------------------------------------------- controller: sendMessage
Contents == [encrypted : BOOLEAN, iv : BOOLEAN]

\* the status sendMessage answers before it persists anything: 400 for content
\* that is not encrypted, 403 for a conversation the sender cannot access, 400
\* when neither conversationId nor recipientId is given, else 200 (go on)
sendMessageStatus(senderId, conversationId, recipientId, content) ==
    IF ~content.encrypted \/ ~content.iv THEN 400
    ELSE IF conversationId # 0
         THEN IF \/ conversationId \notin DOMAIN conversations
                 \/ senderId \notin conversations[conversationId].participants
              THEN 403 ELSE 200
         ELSE IF recipientId # None THEN 200 ELSE 400

\* the conversation collection after sendMessage resolved its conversation
sendMessageConversations(senderId, conversationId, recipientId) ==
    IF conversationId # 0 THEN conversations
    ELSE findOrCreate(senderId, recipientId)

\* the conversation sendMessage resolved
sendMessageConversation(senderId, conversationId, recipientId) ==
    IF conversationId # 0 THEN conversationId
    ELSE IF findConversation(senderId, recipientId) # 0
         THEN findConversation(senderId, recipientId)
         ELSE Len(conversations) + 1

\* recipientId || conversation.participants.find(p => p !== senderId)
sendMessageRecipient(senderId, conversationId, recipientId) ==
    IF recipientId # None THEN recipientId
    ELSE LET others == conversations[conversationId].participants \ {senderId}
         IN IF others = {} THEN None ELSE CHOOSE p \in others : TRUE

\* sendMessage up to its first database call: validation, then the
\* conversation is looked up or created
sendMessage_begin(senderId, conversationId, recipientId, content) ==
    LET st == sendMessageStatus(senderId, conversationId, recipientId, content)
    IN IF st # 200
       THEN /\ response' = [op |-> "sendMessage", status |-> st]
            /\ UNCHANGED <<store, queue, isRunning, hub, tasks, outputs>>
       ELSE /\ conversations' =
                   sendMessageConversations(senderId, conversationId, recipientId)
            /\ sends' = AddTask(sends,
                   [pc |-> "create", sender |-> senderId,
                    conversationId |->
                        sendMessageConversation(senderId, conversationId, recipientId),
                    recipient |->
                        sendMessageRecipient(senderId, conversationId, recipientId),
                    content |-> content, messageId |-> 0])
            /\ response' = NoResponse
            /\ UNCHANGED <<messages, queue, isRunning, hub, reads, deletes, sweeps,
                           pendings, outputs>>

\* Message.create({... status: 'sent' ...})
sendMessage_create(t) ==
    /\ BagIn(t, sends) /\ t.pc = "create"
    /\ messages' = Append(messages,
                          NewMessage(t.conversationId, t.sender, t.recipient,
                                     t.content))
    /\ sends' = AddTask(DropTask(sends, t),
                        [t EXCEPT !.pc = "dispatch", !.messageId = Len(messages) + 1])
    /\ response' = NoResponse
    /\ UNCHANGED <<conversations, queue, isRunning, hub, reads, deletes, sweeps,
                   pendings, outputs>>

\* MessageQueue.queueMessage: the Map afterwards
queueMessage(messageId, recipientId) ==
    LET entry == [messageId |-> messageId, retries |-> 0]
    IN IF \E i \in DOMAIN queue : queue[i].userId = recipientId
       THEN [i \in DOMAIN queue |->
                IF queue[i].userId = recipientId
                THEN [queue[i] EXCEPT !.messages = Append(@, entry)]
                ELSE queue[i]]
       ELSE Append(queue, [userId |-> recipientId, messages |-> <<entry>>])

\* the rest of sendMessage: updateLastMessage, then push to the conversation
\* room if the recipient is online, else queue; a message without recipient
\* throws at message.recipient.toString() and answers 500
sendMessage_dispatch(t) ==
    /\ BagIn(t, sends) /\ t.pc = "dispatch"
    /\ conversations' = updateLastMessage(t.conversationId, t.messageId)
    /\ sends' = DropTask(sends, t)
    /\ IF t.recipient = None
       THEN /\ response' = [op |-> "sendMessage", status |-> 500]
            /\ UNCHANGED <<queue, emitted, received>>
       ELSE /\ response' = [op |-> "sendMessage", status |-> 200]
            /\ IF isUserOnline(t.recipient)
               THEN /\ emitted' = [emitted EXCEPT ![t.messageId] = @ + 1]
                    /\ received' = [received EXCEPT ![t.messageId] =
                           @ + sendToConversation(t.conversationId, t.recipient)]
                    /\ UNCHANGED queue
               ELSE /\ queue' = queueMessage(t.messageId, t.recipient)
                    /\ UNCHANGED <<emitted, received>>
    /\ UNCHANGED <<messages, isRunning, hub, reads, deletes, sweeps, pendings,
                   deliveredNotices, deletedEvents, readEvents>>

\* --------------------------------------------------- controller: markRead
\* markRead up to Message.findById
markRead_find(userId, messageId) ==
    IF messageId \notin DOMAIN messages
    THEN /\ response' = [op |-> "markRead", status |-> 404]
         /\ UNCHANGED <<store, queue, isRunning, hub, tasks, outputs>>
    ELSE /\ reads' = AddTask(reads, [userId |-> userId, messageId |-> messageId,
                                     doc |-> messages[messageId]])
         /\ response' = NoResponse
         /\ UNCHANGED <<store, queue, isRunning, hub, sends, deletes, sweeps,
                        pendings, outputs>>

\* message.markRead(userId) and its save, then the `message:read` event
\* emitted to the sender's room
markRead_save(t) ==
    /\ BagIn(t, reads)
    /\ messages' = [messages EXCEPT ![t.messageId] =
                       save(@, t.doc, markRead(t.doc, t.userId))]
    /\ reads' = DropTask(reads, t)
    /\ readEvents' = readEvents \cup {[messageId |-> t.messageId, readBy |-> t.userId]}
    /\ response' = [op |-> "markRead", status |-> 200]
    /\ UNCHANGED <<conversations, queue, isRunning, hub, sends, deletes, sweeps,
                   pendings, emitted, received, deliveredNotices, deletedEvents>>

\* ------------------------------------------------ controller: deleteMessage
\* the status deleteMessage answers once the message is loaded
deleteMessageStatus(userId, forEveryone, doc) ==
    IF forEveryone /\ doc.sender # userId THEN 403 ELSE 200

\* deleteMessage up to Message.findById
deleteMessage_find(userId, messageId, forEveryone) ==
    IF messageId \notin DOMAIN messages
    THEN /\ response' = [op |-> "deleteMessage", status |-> 404]
         /\ UNCHANGED <<store, queue, isRunning, hub, tasks, outputs>>
    ELSE /\ deletes' = AddTask(deletes,
                [userId |-> userId, messageId |-> messageId,
                 forEveryone |-> forEveryone, doc |-> messages[messageId]])
         /\ response' = NoResponse
         /\ UNCHANGED <<store, queue, isRunning, hub, sends, reads, sweeps,
                        pendings, outputs>>

\* the sender check, then message.softDelete and its save, then the event
deleteMessage_save(t) ==
    /\ BagIn(t, deletes)
    /\ deletes' = DropTask(deletes, t)
    /\ response' = [op |-> "deleteMessage",
                    status |-> deleteMessageStatus(t.userId, t.forEveryone, t.doc)]
    /\ IF deleteMessageStatus(t.userId, t.forEveryone, t.doc) = 403
       THEN UNCHANGED <<messages, deletedEvents>>
       ELSE /\ messages' = [messages EXCEPT ![t.messageId] =
                   save(@, t.doc,
                        softDelete(t.doc, IF t.forEveryone THEN None ELSE t.userId))]
            /\ deletedEvents' = IF t.forEveryone
                                THEN deletedEvents \cup {t.messageId}
                                ELSE deletedEvents
    /\ UNCHANGED <<conversations, queue, isRunning, hub, sends, reads, sweeps,
                   pendings, emitted, received, deliveredNotices, readEvents>>

\* -------------------------------------------------- controller: getMessages
\* the access check, the page (returned, not kept), then markAllRead
getMessages(userId, conversationId) ==
    IF \/ conversationId \notin DOMAIN conversations
       \/ userId \notin conversations[conversationId].participants
    THEN /\ response' = [op |-> "getMessages", status |-> 403]
         /\ UNCHANGED <<store, queue, isRunning, hub, tasks, outputs>>
    ELSE /\ messages' = markAllRead(userId, conversationId)
         /\ response' = [op |-> "getMessages", status |-> 200]
         /\ UNCHANGED <<conversations, queue, isRunning, hub, tasks, outputs>>

\* --------------------------------------------------- MessageQueue (worker)
NoDoc == [status |-> "none"]

\* Map.has / Map.get / Map.set / Map.delete on the queue, which keeps its
\* keys in insertion order: set on a present key keeps its place, set on an
\* absent key appends
QHas(q, userId) == \E i \in DOMAIN q : q[i].userId = userId

QGet(q, userId) == q[CHOOSE i \in DOMAIN q : q[i].userId = userId].messages

QSet(q, userId, arr) ==
    IF QHas(q, userId)
    THEN [i \in DOMAIN q |->
             IF q[i].userId = userId THEN [q[i] EXCEPT !.messages = arr] ELSE q[i]]
    ELSE Append(q, [userId |-> userId, messages |-> arr])

QDelete(q, userId) == SelectIdx(q, {i \in DOMAIN q : q[i].userId # userId}, 1)

\* MessageQueue.start / MessageQueue.stop
start ==
    /\ ~isRunning
    /\ isRunning' = TRUE
    /\ response' = NoResponse
    /\ UNCHANGED <<store, queue, hub, tasks, outputs>>

stop ==
    /\ isRunning
    /\ isRunning' = FALSE
    /\ response' = NoResponse
    /\ UNCHANGED <<store, queue, hub, tasks, outputs>>

\* the array a run of processQueue iterates: the Map's own array of the user
\* while the Map still holds that array object (so entries pushed meanwhile are
\* seen), else the array object the run got from the Map when it started on
\* the user
sweepArray(t) == IF t.attached THEN QGet(queue, t.userId) ELSE t.held

\* the outer loop of processQueue, run from the Map entries not yet visited up
\* to the first user that is online (where the run awaits findById) or to the
\* end: entries with an empty array are deleted, offline users are passed over
RECURSIVE outerLoop(_, _, _)
outerLoop(q, visited, i) ==
    IF i > Len(q) THEN [done |-> TRUE, queue |-> q, visited |-> visited, userId |-> None]
    ELSE IF q[i].userId \in visited THEN outerLoop(q, visited, i + 1)
    ELSE IF Len(q[i].messages) = 0
         THEN outerLoop(QDelete(q, q[i].userId), visited, i)
    ELSE IF isUserOnline(q[i].userId)
         THEN [done |-> FALSE, queue |-> q, visited |-> visited \cup {q[i].userId},
               userId |-> q[i].userId]
    ELSE outerLoop(q, visited \cup {q[i].userId}, i + 1)

\* the run's state as it awaits findById of the first queued message of a user
sweepOn(q, visited, userId) ==
    [pc |-> "fetched", visited |-> visited, userId |-> userId, idx |-> 1,
     attached |-> TRUE, held |-> <<>>, delivered |-> {},
     doc |-> messages[QGet(q, userId)[1].messageId]]

\* how another run's view changes when the Map's array of userId is replaced
\* (set) or removed (deleted): a run iterating that array keeps the old array
\* object; a deleted key is a new entry for every iterator if it is set again
sweepAfterSet(x, userId, old, deleted) ==
    [x EXCEPT !.attached = IF x.userId = userId THEN FALSE ELSE @,
              !.held = IF x.userId = userId /\ x.attached THEN old ELSE @,
              !.visited = IF deleted THEN @ \ {userId} ELSE @]

RECURSIVE sumCopies(_, _)
sumCopies(bag, S) ==
    IF S = {} THEN 0
    ELSE LET x == CHOOSE y \in S : TRUE IN bag[x] + sumCopies(bag, S \ {x})

\* the other runs of processQueue after this one replaced or removed the array
sweepsAfterSet(bag, userId, old, deleted) ==
    LET image == {sweepAfterSet(x, userId, old, deleted) : x \in BagToSet(bag)}
    IN [r \in image |->
           sumCopies(bag, {x \in BagToSet(bag) :
                              sweepAfterSet(x, userId, old, deleted) = r})]

\* processQueue from the timer tick to its first await
processQueue_start ==
    /\ isRunning
    /\ LET o == outerLoop(queue, {}, 1)
       IN /\ queue' = o.queue
          /\ sweeps' = IF o.done THEN sweeps
                       ELSE AddTask(sweeps, sweepOn(o.queue, o.visited, o.userId))
    /\ response' = NoResponse
    /\ UNCHANGED <<store, isRunning, hub, sends, reads, deletes, pendings, outputs>>

\* the message was loaded in status `sent`: push it to the user's room, then
\* message.markDelivered(userId) and its save
processQueue_deliver(t) ==
    /\ BagIn(t, sweeps) /\ t.pc = "fetched" /\ t.doc.status = "sent"
    /\ LET m == sweepArray(t)[t.idx].messageId
       IN /\ emitted' = [emitted EXCEPT ![m] = @ + 1]
          /\ received' = [received EXCEPT ![m] = @ + sendToUser(t.userId)]
          /\ messages' = [messages EXCEPT ![m] =
                             save(@, t.doc, markDelivered(t.doc, t.userId))]
          /\ sweeps' = AddTask(DropTask(sweeps, t),
                 [t EXCEPT !.pc = "saved", !.doc = NoDoc,
                           !.delivered = @ \cup {m}])
    /\ response' = NoResponse
    /\ UNCHANGED <<conversations, queue, isRunning, hub, sends, reads, deletes,
                   pendings, deliveredNotices, deletedEvents, readEvents>>

\* queuedMessage.retries++ in the catch block.  The entry object of a message
\* is one object, shared by the Map's array and by every array a run of
\* processQueue still holds, so the count changes in all of them.
bumpRetries(arr, messageId) ==
    [i \in DOMAIN arr |->
        IF arr[i].messageId = messageId
        THEN [arr[i] EXCEPT !.retries = @ + 1]
        ELSE arr[i]]

queueRetried(q, messageId) ==
    [i \in DOMAIN q |-> [q[i] EXCEPT !.messages = bumpRetries(@, messageId)]]

sweepsRetried(bag, messageId) ==
    LET bumped(x) == [x EXCEPT !.held = bumpRetries(@, messageId)]
        image == {bumped(x) : x \in BagToSet(bag)}
    IN [r \in image |-> sumCopies(bag, {x \in BagToSet(bag) : bumped(x) = r})]

\* Message.findById rejects: the catch block counts a retry and the inner
\* loop goes on
processQueue_findFails(t) ==
    /\ BagIn(t, sweeps) /\ t.pc = "fetched"
    /\ LET m == sweepArray(t)[t.idx].messageId
       IN /\ queue' = queueRetried(queue, m)
          /\ sweeps' = sweepsRetried(
                 AddTask(DropTask(sweeps, t), [t EXCEPT !.pc = "saved", !.doc = NoDoc]),
                 m)
    /\ response' = NoResponse
    /\ UNCHANGED <<store, isRunning, hub, sends, reads, deletes, pendings, outputs>>

\* the message was loaded in status `sent` and pushed to the user's room, then
\* the save of markDelivered rejects: nothing is written, the catch block
\* counts a retry and the inner loop goes on
processQueue_saveFails(t) ==
    /\ BagIn(t, sweeps) /\ t.pc = "fetched" /\ t.doc.status = "sent"
    /\ LET m == sweepArray(t)[t.idx].messageId
       IN /\ emitted' = [emitted EXCEPT ![m] = @ + 1]
          /\ received' = [received EXCEPT ![m] = @ + sendToUser(t.userId)]
          /\ queue' = queueRetried(queue, m)
          /\ sweeps' = sweepsRetried(
                 AddTask(DropTask(sweeps, t), [t EXCEPT !.pc = "saved", !.doc = NoDoc]),
                 m)
    /\ response' = NoResponse
    /\ UNCHANGED <<store, isRunning, hub, sends, reads, deletes, pendings,
                   deliveredNotices, deletedEvents, readEvents>>

\* the entries processQueue keeps for the user once its inner loop is over
remaining(arr, delivered) ==
    SelectIdx(arr, {i \in DOMAIN arr : /\ arr[i].messageId \notin delivered
                                        /\ arr[i].retries < maxRetries}, 1)

\* processQueue after a save, or after a message loaded in another status than
\* `sent`: the next queued message of the user is loaded, or the user's entries
\* are filtered and set (or the key deleted) and the outer loop goes on
processQueue_next(t) ==
    /\ BagIn(t, sweeps)
    /\ t.pc = "saved" \/ (t.pc = "fetched" /\ t.doc.status # "sent")
    /\ LET arr == sweepArray(t)
           others == DropTask(sweeps, t)
       IN IF t.idx < Len(arr)
          THEN /\ sweeps' = AddTask(others,
                      [t EXCEPT !.pc = "fetched", !.idx = @ + 1,
                                !.doc = messages[arr[t.idx + 1].messageId]])
               /\ UNCHANGED queue
          ELSE LET rest == remaining(arr, t.delivered)
                   deleted == rest = <<>>
                   q1 == IF deleted THEN QDelete(queue, t.userId)
                         ELSE QSet(queue, t.userId, rest)
                   o == outerLoop(q1, IF deleted THEN t.visited \ {t.userId}
                                      ELSE t.visited, 1)
                   current == IF QHas(queue, t.userId) THEN QGet(queue, t.userId)
                              ELSE <<>>
                   seen == sweepsAfterSet(others, t.userId, current, deleted)
               IN /\ queue' = o.queue
                  /\ sweeps' = IF o.done THEN seen
                               ELSE AddTask(seen, sweepOn(o.queue, o.visited, o.userId))
    /\ response' = NoResponse
    /\ UNCHANGED <<store, isRunning, hub, sends, reads, deletes, pendings, outputs>>

\* MessageQueue.getPendingMessages: the ids found, oldest first
getPendingMessages(userId) ==
    LET match == {i \in DOMAIN messages : /\ messages[i].recipient = userId
                                          /\ messages[i].status = "sent"
                                          /\ ~messages[i].deleted}
        ids == [i \in 1..Len(messages) |-> i]
    IN Take(SelectIdx(ids, match, 1), PendingLimit)

\* who calls deliverPendingMessages: the reconnect hook, for a user that has
\* just connected
reconnectHook(userId) == isUserOnline(userId)

\* deliverPendingMessages up to getPendingMessages
deliverPendingMessages_find(userId) ==
    /\ reconnectHook(userId)
    /\ pendings' = IF getPendingMessages(userId) = <<>> THEN pendings
                   ELSE AddTask(pendings,
                          [pc |-> "found", userId |-> userId,
                           pendingMessages |-> getPendingMessages(userId)])
    /\ response' = NoResponse
    /\ UNCHANGED <<store, queue, isRunning, hub, sends, reads, deletes, sweeps,
                   outputs>>

\* Message.updateMany({_id: {$in: messageIds}}, {$set: {status: 'delivered'},
\* $push: {deliveredTo: ...}}) on the stored documents
markPendingDelivered(ids, userId) ==
    [i \in DOMAIN messages |->
        IF i \in ids
        THEN [messages[i] EXCEPT !.status = "delivered",
                                 !.deliveredTo = Append(@, userId)]
        ELSE messages[i]]

\* the batch is pushed to the user's room, then marked delivered in bulk
deliverPendingMessages_push(t) ==
    /\ BagIn(t, pendings) /\ t.pc = "found"
    /\ LET ids == Range(t.pendingMessages)
       IN /\ emitted' = [m \in MsgIds |-> emitted[m] + IF m \in ids THEN 1 ELSE 0]
          /\ received' = [m \in MsgIds |->
                 received[m] + IF m \in ids THEN sendToUser(t.userId) ELSE 0]
          /\ messages' = markPendingDelivered(ids, t.userId)
    /\ pendings' = AddTask(DropTask(pendings, t), [t EXCEPT !.pc = "updated"])
    /\ response' = NoResponse
    /\ UNCHANGED <<conversations, queue, isRunning, hub, sends, reads, deletes,
                   sweeps, deliveredNotices, deletedEvents, readEvents>>

\* one `messages:delivered` event per distinct sender, naming its messages
deliverPendingMessages_notify(t) ==
    /\ BagIn(t, pendings) /\ t.pc = "updated"
    /\ deliveredNotices' = [m \in MsgIds |->
           deliveredNotices[m] + IF m \in Range(t.pendingMessages) THEN 1 ELSE 0]
    /\ pendings' = DropTask(pendings, t)
    /\ response' = NoResponse
    /\ UNCHANGED <<store, queue, isRunning, hub, sends, reads, deletes, sweeps,
                   emitted, received, deletedEvents, readEvents>>

\* --------------------------------------------------------------- encryption
\* A string is a sequence of UTF-16 code units.  Four units stand for the
\* cases the encoders tell apart: a letter, U+FEFF (the byte order mark), a
\* high surrogate and a low surrogate (together U+1F600).
CodeUnits == {"a", "FEFF", "D83D", "DE00"}
Strings == UNION {[1..n -> CodeUnits] : n \in 0..MaxLen}

\* keys: none, the ECDH secret of two users, the n-th random key of a user
NoKey == [kind |-> "none", users |-> {}, n |-> 0]
sharedKey(a, b) == [kind |-> "shared", users |-> {a, b}, n |-> 0]
randomKey(u, n) == [kind |-> "random", users |-> {u}, n |-> n]

\* names under which a key store holds keys: a conversation id (0 when the
\* caller has none), or `user:<id>`
conversationKeyName(c) == [conversation |-> c, user |-> None]
userKeyName(u) == [conversation |-> 0, user |-> u]
KeyNames ==
    {conversationKeyName(c) : c \in {0} \cup ConvIds} \cup {userKeyName(u) : u \in Users}

\* initialization vectors getRandomValues / randomBytes may return
IVs == {"iv1", "iv2"}

RECURSIVE utf8Encode(_)
\* string to UTF-8 bytes, as TextEncoder.encode and Node's 'utf8' input
\* encoding do it: a surrogate pair becomes one 4-byte sequence, a surrogate
\* without its partner becomes U+FFFD
utf8Encode(str) ==
    IF str = <<>> THEN <<>>
    ELSE IF str[1] = "a" THEN <<"61">> \o utf8Encode(Tail(str))
    ELSE IF str[1] = "FEFF" THEN <<"EF", "BB", "BF">> \o utf8Encode(Tail(str))
    ELSE IF str[1] = "D83D" /\ Len(str) >= 2 /\ str[2] = "DE00"
         THEN <<"F0", "9F", "98", "80">> \o utf8Encode(Tail(Tail(str)))
    ELSE <<"EF", "BF", "BD">> \o utf8Encode(Tail(str))

RECURSIVE utf8Decode(_)
\* UTF-8 bytes to string, for the byte sequences utf8Encode produces
utf8Decode(bytes) ==
    IF bytes = <<>> THEN <<>>
    ELSE IF bytes[1] = "61" THEN <<"a">> \o utf8Decode(Tail(bytes))
    ELSE IF bytes[1] = "F0"
         THEN <<"D83D", "DE00">> \o utf8Decode(SubSeq(bytes, 5, Len(bytes)))
    ELSE IF bytes[2] = "BB"
         THEN <<"FEFF">> \o utf8Decode(SubSeq(bytes, 4, Len(bytes)))
    ELSE <<"FFFD">> \o utf8Decode(SubSeq(bytes, 4, Len(bytes)))

\* new TextDecoder().decode: UTF-8 with ignoreBOM false, so a leading byte
\* order mark is dropped from the result
TextDecoder_decode(bytes) ==
    LET str == utf8Decode(bytes)
    IN IF str # <<>> /\ str[1] = "FEFF" THEN Tail(str) ELSE str

\* arrayBufferToBase64 / base64ToArrayBuffer and Node's 'base64' encoding
arrayBufferToBase64(buffer) == [base64 |-> buffer]
base64ToArrayBuffer(b64) == b64.base64

\* AES-256-GCM: the sealed box opens only under the key and iv that made it
gcmSeal(key, iv, data) == [key |-> key, iv |-> iv, data |-> data]
gcmOpens(box, key, iv) == box.key = key /\ box.iv = iv

Failed == [ok |-> FALSE, text |-> <<>>]

\* EncryptionUtils.encrypt (client)
encrypt(plaintext, key, iv) ==
    [encrypted |-> arrayBufferToBase64(gcmSeal(key, iv, utf8Encode(plaintext))),
     iv |-> arrayBufferToBase64(iv)]

\* EncryptionUtils.decrypt (client): the text, or Failed when it throws
decrypt(encryptedData, key) ==
    LET box == base64ToArrayBuffer(encryptedData.encrypted)
        iv == base64ToArrayBuffer(encryptedData.iv)
    IN IF gcmOpens(box, key, iv)
       THEN [ok |-> TRUE, text |-> TextDecoder_decode(box.data)]
       ELSE Failed

\* EncryptionService.encrypt (server)
EncryptionService_encrypt(plaintext, key, iv) ==
    [encrypted |-> arrayBufferToBase64(gcmSeal(key, iv, utf8Encode(plaintext))),
     iv |-> arrayBufferToBase64(iv),
     authTag |-> arrayBufferToBase64(<<key, iv>>),
     algorithm |-> "aes-256-gcm"]

\* EncryptionService.decrypt (server): the text, or Failed when it throws
EncryptionService_decrypt(encryptedData, key) ==
    LET box == base64ToArrayBuffer(encryptedData.encrypted)
        iv == base64ToArrayBuffer(encryptedData.iv)
    IN IF /\ gcmOpens(box, key, iv)
          /\ base64ToArrayBuffer(encryptedData.authTag) = <<box.key, box.iv>>
       THEN [ok |-> TRUE, text |-> utf8Decode(box.data)]
       ELSE Failed

NoSealed == [side |-> "none"]
NoOpened == [side |-> "none"]

\* a call of encrypt on either side; its result is kept in `sealed`
encryptCall(side, plaintext, key, iv) ==
    /\ sealed' = [side |-> side, plaintext |-> plaintext, key |-> key,
                  data |-> IF side = "client"
                           THEN encrypt(plaintext, key, iv)
                           ELSE EncryptionService_encrypt(plaintext, key, iv)]
    /\ opened' = NoOpened
    /\ UNCHANGED <<store, queue, isRunning, hub, tasks, outputs, response, authResult,
                   client, ui, legacy>>

\* a call of decrypt, on the side that encrypted, on what `sealed` holds
decryptCall(key) ==
    /\ sealed.side # "none"
    /\ opened' = [side |-> sealed.side, key |-> key,
                  result |-> IF sealed.side = "client"
                             THEN decrypt(sealed.data, key)
                             ELSE EncryptionService_decrypt(sealed.data, key)]
    /\ UNCHANGED <<store, queue, isRunning, hub, tasks, outputs, response, authResult,
                   client, sealed, ui, legacy>>

\* ----------------------------------------------------------- client session
\* One session (MessagingProvider) per user.  Its handlers are registered on
\* the socket by connect(), which is memoized on the `socket` state: what they
\* see as `socket` is the state's value when connect() ran, not the socket
\* they are registered on.

\* the live socket the session's `socket` state refers to, if any
liveSocket(userId, n) == {s \in sockets : s.userId = userId /\ s.n = n}

\* socket?.connected
socketConnected(userId) == liveSocket(userId, socketState[userId]) # {}

\* connect(token) with a token the server admits: a new socket with the
\* handlers on it, setSocket(newSocket); on the server, io.on('connection')
connect(userId) ==
    /\ ~socketConnected(userId)
    /\ connection(userId)
    /\ socketState' = [socketState EXCEPT ![userId] =
                          (CHOOSE s \in sockets' \ sockets : TRUE).n]
    /\ handlerSocket' = [handlerSocket EXCEPT ![userId] = socketState[userId]]
    /\ UNCHANGED <<authResult, keyStore, handled, clientMessages, emits, receipts,
                   relayedReceipts, inbound, keyEvents, posts, crypto, ui, legacy>>

\* disconnect(): socket.disconnect(), setSocket(null); on the server, the
\* socket's disconnect handler if the socket was live
clientDisconnect(userId) ==
    /\ socketState[userId] # 0
    /\ socketState' = [socketState EXCEPT ![userId] = 0]
    /\ IF socketConnected(userId)
       THEN \E s \in liveSocket(userId, socketState[userId]) : disconnect(s)
       ELSE /\ response' = NoResponse
            /\ UNCHANGED <<store, queue, isRunning, hub, tasks, outputs>>
    /\ UNCHANGED <<authResult, keyStore, handlerSocket, handled, clientMessages, emits,
                   receipts, relayedReceipts, inbound, keyEvents, posts, crypto, ui, legacy>>

\* socket.on('keys:exchange') on the server: relay the sender's public key to
\* the recipient's personal room
keysExchange(socket, recipientId) ==
    /\ socket \in sockets
    /\ keyEvents' = IF UserRoom(recipientId) # {}
                    THEN AddTask(keyEvents,
                                 [to |-> recipientId, senderId |-> socket.userId])
                    ELSE keyEvents
    /\ response' = NoResponse
    /\ UNCHANGED <<store, queue, isRunning, hub, tasks, outputs, authResult, keyStore,
                   socketState, handlerSocket, handled, clientMessages, emits, receipts,
                   relayedReceipts, inbound, posts, crypto, ui, legacy>>

\* handleKeyExchange: derive the shared key from the own private key and the
\* sender's public key, store it under `user:<senderId>`
handleKeyExchange(ev) ==
    /\ BagIn(ev, keyEvents)
    /\ keyEvents' = DropTask(keyEvents, ev)
    /\ keyStore' = [keyStore EXCEPT ![ev.to][userKeyName(ev.senderId)] =
                       sharedKey(ev.to, ev.senderId)]
    /\ response' = NoResponse
    /\ UNCHANGED <<store, queue, isRunning, hub, tasks, outputs, authResult,
                   socketState, handlerSocket, handled, clientMessages, emits, receipts,
                   relayedReceipts, inbound, posts, crypto, ui, legacy>>

\* the key sendMessage encrypts with: the one stored under the conversation
\* id, else a newly generated random key
sendKey(userId, conversationId) ==
    IF keyStore[userId][conversationKeyName(conversationId)] # NoKey
    THEN keyStore[userId][conversationKeyName(conversationId)]
    ELSE randomKey(userId,
                   1 + Cardinality({k \in KeyNames :
                                       keyStore[userId][k].kind = "random"}))

\* what Date.now() may return to the session's next sendMessage: the clock
\* never goes back, and two calls within a millisecond read the same value
clockReadings(userId) ==
    LET pending == {p.localId : p \in {q \in BagToSet(posts) : q.userId = userId}}
        latest == CHOOSE k \in pending : \A j \in pending : j <= k
    IN IF pending = {} THEN {1} ELSE {latest, latest + 1}

\* sendMessage(conversationId, content, options) up to its REST call: the
\* optimistic entry `local_<Date.now()>` is listed; and the server's
\* sendMessage up to its first database call
clientSendMessage_begin(userId, conversationId, recipientId, text, iv, now) ==
    LET key == sendKey(userId, conversationId)
        encryptedContent == encrypt(text, key, iv)
        content == [encrypted |-> TRUE, iv |-> TRUE, body |-> encryptedContent]
        localMessage == [conversationId |-> conversationId, messageId |-> 0,
                         localId |-> now, status |-> "sending",
                         decryptedContent |-> [ok |-> TRUE, text |-> text]]
    IN /\ socketConnected(userId)
       /\ keyStore' = [keyStore EXCEPT ![userId][conversationKeyName(conversationId)] =
                          key]
       /\ clientMessages' = [clientMessages EXCEPT ![userId] = Append(@, localMessage)]
       /\ sendMessage_begin(userId, conversationId, recipientId, content)
       /\ posts' = IF sendMessageStatus(userId, conversationId, recipientId, content)
                        = 200
                   THEN AddTask(posts, [userId |-> userId,
                                        conversationId |-> conversationId,
                                        text |-> text, content |-> content,
                                        localId |-> now])
                   ELSE posts
       /\ returned' = IF sendMessageStatus(userId, conversationId, recipientId, content)
                           = 200
                      THEN returned
                      ELSE [value |-> "null", at |-> "post"]
       /\ UNCHANGED <<authResult, socketState, handlerSocket, handled, emits, receipts,
                      relayedReceipts, inbound, keyEvents, crypto, statusInbox, typing,
                      legacy>>

\* the message a REST call of the session created, once the server answered
answered(p) ==
    {m \in DOMAIN messages :
        /\ messages[m].sender = p.userId
        /\ messages[m].content = p.content
        /\ \A t \in BagToSet(sends) : t.messageId # m
        /\ \A copy \in Range(clientMessages[p.userId]) :
              copy.messageId = m => copy.localId = 0}

\* a failing sendMessage that lists its local message before it encrypts
clientSendMessage_encryptFails_listsFirst(userId, conversationId, stored) ==
    /\ socketConnected(userId)
    /\ keyStore' = IF stored
                   THEN [keyStore EXCEPT ![userId][conversationKeyName(conversationId)] =
                            sendKey(userId, conversationId)]
                   ELSE keyStore
    /\ clientMessages' = [clientMessages EXCEPT ![userId] =
          Append(@, [conversationId |-> conversationId, messageId |-> 0,
                     localId |-> 1, status |-> "sending",
                     decryptedContent |-> [ok |-> TRUE, text |-> <<>>]])]
    /\ returned' = [value |-> "null", at |-> "encrypt"]
    /\ response' = NoResponse
    /\ UNCHANGED <<store, queue, isRunning, hub, tasks, outputs, authResult,
                   socketState, handlerSocket, handled, emits, receipts,
                   relayedReceipts, inbound, keyEvents, posts, crypto, statusInbox,
                   typing, legacy>>

\* sendMessage when generateEncryptionKey or encrypt throws: the catch block
\* returns null.  A key generated before encrypt threw is in the key store.
clientSendMessage_encryptFails(userId, conversationId, stored) ==
    /\ socketConnected(userId)
    /\ keyStore' = IF stored
                   THEN [keyStore EXCEPT ![userId][conversationKeyName(conversationId)] =
                            sendKey(userId, conversationId)]
                   ELSE keyStore
    /\ returned' = [value |-> "null", at |-> "encrypt"]
    /\ response' = NoResponse
    /\ UNCHANGED <<store, queue, isRunning, hub, tasks, outputs, authResult,
                   socketState, handlerSocket, handled, clientMessages, emits, receipts,
                   relayedReceipts, inbound, keyEvents, posts, crypto, statusInbox,
                   typing, legacy>>

\* sendMessage when `socket?.connected` is false: `return null`
clientSendMessage_notConnected(userId) ==
    /\ ~socketConnected(userId)
    /\ returned' = [value |-> "null", at |-> "connected"]
    /\ response' = NoResponse
    /\ UNCHANGED <<store, queue, isRunning, hub, tasks, outputs, authResult, client,
                   crypto, statusInbox, typing, legacy>>

\* prev[conversationId].map(m => m._id === localMessage._id ? {...serverMessage,
\* decryptedContent: content} : m)
reconciled(view, p, m) ==
    [i \in DOMAIN view |->
        IF /\ view[i].conversationId = p.conversationId
           /\ view[i].messageId = 0
           /\ view[i].localId = p.localId
        THEN [view[i] EXCEPT !.messageId = m, !.status = "sent",
                             !.decryptedContent = [ok |-> TRUE, text |-> p.text]]
        ELSE view[i]]

\* the rest of sendMessage, after the REST call: on an error answer the catch
\* block; else the server's message replaces the local one, and
\* `message:send` is emitted, which the server relays as `message:new` to the
\* conversation room except the sending socket
clientSendMessage_emit(p, m) ==
    /\ BagIn(p, posts)
    /\ m \in answered(p)
    /\ posts' = DropTask(posts, p)
    /\ IF messages[m].recipient = None
       THEN /\ returned' = [value |-> "null", at |-> "post"]
            /\ UNCHANGED <<clientMessages, inbound>>
       ELSE /\ returned' = [value |-> "message", at |-> "done"]
            /\ clientMessages' = [clientMessages EXCEPT ![p.userId] =
                   reconciled(@, p, m)]
            /\ inbound' = inbound (+) SetToBag(
                   {[to |-> s.userId, n |-> s.n, messageId |-> m, shape |-> "relay"] :
                       s \in ConversationRoom(p.conversationId)
                               \ liveSocket(p.userId, socketState[p.userId])})
    /\ response' = NoResponse
    /\ UNCHANGED <<store, queue, isRunning, hub, tasks, outputs, authResult, keyStore,
                   socketState, handlerSocket, handled, emits, receipts,
                   relayedReceipts, keyEvents, crypto, statusInbox, typing, legacy>>

\* decryptedContent of handleNewMessage: null without a key for the
\* conversation or when decrypt throws
decryptedContent(userId, message) ==
    IF keyStore[userId][conversationKeyName(message.conversationId)] # NoKey
    THEN IF "body" \in DOMAIN message.content
         THEN decrypt(message.content.body,
                      keyStore[userId][conversationKeyName(message.conversationId)])
         ELSE Failed
    ELSE Failed

\* processedMessage of handleNewMessage, as it is listed
processedMessage(userId, m) ==
    [conversationId |-> messages[m].conversationId, messageId |-> m, localId |-> 0,
     status |-> "sent", decryptedContent |-> decryptedContent(userId, messages[m])]

\* handleNewMessage for a `message:new` the REST handler pushed, or for one
\* message of a `messages:pending` batch, in the recipient's session.  Its
\* `socket` is null, or the session's previous socket, which was disconnected
\* when connect() ran: an emit on that one is buffered, and reaches the server
\* (over a connection of its own, n = 0) if that socket reconnects
handleNewMessage(m) ==
    LET message == messages[m]
        userId == message.recipient
        socket == handlerSocket[userId]
    IN /\ m \in DOMAIN messages
       /\ handled[m] < received[m]
       /\ handled' = [handled EXCEPT ![m] = @ + 1]
       /\ clientMessages' = [clientMessages EXCEPT ![userId] =
              Append(@, processedMessage(userId, m))]
       /\ IF socket # 0
          THEN /\ emits' = [emits EXCEPT ![m] = @ + 1]
               /\ \E reconnected \in BOOLEAN :
                     receipts' = IF reconnected
                                 THEN AddTask(receipts,
                                         [event |-> "message:delivered",
                                          messageId |-> m,
                                          conversationId |-> message.conversationId,
                                          userId |-> userId, n |-> 0])
                                 ELSE receipts
          ELSE UNCHANGED <<emits, receipts>>
       /\ response' = NoResponse
       /\ UNCHANGED <<store, queue, isRunning, hub, tasks, outputs, authResult,
                      keyStore, socketState, handlerSocket, relayedReceipts, inbound,
                      keyEvents, posts, crypto, ui, legacy>>

\* sendToConversation of the REST handler reaches every socket in the
\* conversation room: those of other users than the recipient, the sender's
\* among them, get the `message:new` too
sendMessage_pushToOthers(t) ==
    /\ inbound' =
          IF t.recipient # None /\ isUserOnline(t.recipient)
          THEN inbound (+) SetToBag(
                   {[to |-> s.userId, n |-> s.n, messageId |-> t.messageId,
                     shape |-> "message"] :
                       s \in {x \in ConversationRoom(t.conversationId) :
                                 x.userId # t.recipient}})
          ELSE inbound
    /\ UNCHANGED <<authResult, keyStore, socketState, handlerSocket, handled,
                   clientMessages, emits, receipts, relayedReceipts, keyEvents, posts,
                   crypto, ui, legacy>>

\* handleNewMessage for a `message:new` the REST handler pushed to a session
\* of another user than the recipient
handleNewMessage_pushed(ev) ==
    LET m == ev.messageId
        socket == handlerSocket[ev.to]
    IN /\ BagIn(ev, inbound) /\ ev.shape = "message"
       /\ inbound' = DropTask(inbound, ev)
       /\ clientMessages' = [clientMessages EXCEPT ![ev.to] =
              Append(@, processedMessage(ev.to, m))]
       /\ IF socket # 0
          THEN /\ emits' = [emits EXCEPT ![m] = @ + 1]
               /\ \E reconnected \in BOOLEAN :
                     receipts' = IF reconnected
                                 THEN AddTask(receipts,
                                         [event |-> "message:delivered",
                                          messageId |-> m,
                                          conversationId |-> messages[m].conversationId,
                                          userId |-> ev.to, n |-> 0])
                                 ELSE receipts
          ELSE UNCHANGED <<emits, receipts>>
       /\ response' = NoResponse
       /\ UNCHANGED <<store, queue, isRunning, hub, tasks, outputs, authResult,
                      keyStore, socketState, handlerSocket, handled, relayedReceipts,
                      keyEvents, posts, crypto, ui, legacy>>

\* handleNewMessage for a `message:new` the server's message:send handler
\* relayed: the payload has no `message`, so `message.conversationId` throws
handleNewMessage_relayed(ev) ==
    /\ BagIn(ev, inbound) /\ ev.shape = "relay"
    /\ inbound' = DropTask(inbound, ev)
    /\ response' = NoResponse
    /\ UNCHANGED <<store, queue, isRunning, hub, tasks, outputs, authResult, keyStore,
                   socketState, handlerSocket, handled, clientMessages, emits, receipts,
                   relayedReceipts, keyEvents, posts, crypto, ui, legacy>>

\* a session emits a receipt for a message over its socket
emitReceipt(socket, event, m) ==
    /\ socket \in sockets
    /\ m \in DOMAIN messages
    /\ receipts' = AddTask(receipts,
                      [event |-> event, messageId |-> m,
                       conversationId |-> messages[m].conversationId,
                       userId |-> socket.userId, n |-> socket.n])
    /\ response' = NoResponse
    /\ UNCHANGED <<store, queue, isRunning, hub, tasks, outputs, authResult, keyStore,
                   socketState, handlerSocket, handled, clientMessages, emits,
                   relayedReceipts, inbound, keyEvents, posts, crypto, ui, legacy>>

\* socket.on('message:delivered') and socket.on('message:read') on the
\* server: relay the receipt to the conversation room except the socket it
\* came from
receiptRelay(r) ==
    /\ BagIn(r, receipts)
    /\ receipts' = DropTask(receipts, r)
    /\ relayedReceipts' = relayedReceipts \cup
          {[event |-> r.event, messageId |-> r.messageId, by |-> r.userId,
            reached |-> {s.userId : s \in ConversationRoom(r.conversationId)
                                          \ liveSocket(r.userId, r.n)}]}
    /\ response' = NoResponse
    /\ UNCHANGED <<store, queue, isRunning, hub, tasks, outputs, authResult, keyStore,
                   socketState, handlerSocket, handled, clientMessages, emits, inbound,
                   keyEvents, posts, crypto, ui, legacy>>

\* ------------------------------------------------- session: status events
\* the status event appended to the inbox of every user in `reached`
statusSent(inbox, reached, ev) ==
    [u \in Users |-> IF u \in reached THEN Append(inbox[u], ev) ELSE inbox[u]]

\* socket.on('message:delivered') and socket.on('message:read') on the
\* server, with the sessions the relayed event is sent to
receiptRelay_toSessions(r) ==
    LET reached == {s.userId : s \in ConversationRoom(r.conversationId)
                                     \ liveSocket(r.userId, r.n)}
    IN /\ BagIn(r, receipts)
       /\ receipts' = DropTask(receipts, r)
       /\ relayedReceipts' = relayedReceipts \cup
             {[event |-> r.event, messageId |-> r.messageId, by |-> r.userId,
               reached |-> reached]}
       /\ statusInbox' = statusSent(statusInbox, reached,
             [event |-> r.event, messageId |-> r.messageId,
              conversationId |-> r.conversationId])
       /\ response' = NoResponse
       /\ UNCHANGED <<store, queue, isRunning, hub, tasks, outputs, authResult,
                      keyStore, socketState, handlerSocket, handled, clientMessages,
                      emits, inbound, keyEvents, posts, crypto, returned, typing,
                      legacy>>

\* getMessages' sendToConversation(conversationId, 'messages:read', ...): the
\* event is sent to every socket in the conversation room
getMessages_toSessions(userId, conversationId) ==
    /\ statusInbox' =
          IF /\ conversationId \in DOMAIN conversations
             /\ userId \in conversations[conversationId].participants
          THEN statusSent(statusInbox,
                          {s.userId : s \in ConversationRoom(conversationId)},
                          [event |-> "messages:read", messageId |-> 0,
                           conversationId |-> conversationId])
          ELSE statusInbox
    /\ UNCHANGED <<authResult, client, crypto, returned, typing, legacy>>

\* updateMessageStatus(messageId, status), on one session's lists
updateMessageStatus(view, messageId, status) ==
    [i \in DOMAIN view |->
        IF view[i].messageId = messageId THEN [view[i] EXCEPT !.status = status]
        ELSE view[i]]

\* markConversationRead(conversationId, readBy), on one session's lists
markConversationRead(view, conversationId) ==
    [i \in DOMAIN view |->
        IF view[i].conversationId = conversationId
        THEN [view[i] EXCEPT !.status = "read"]
        ELSE view[i]]

\* the session's handlers of `message:delivered`, `message:read` and
\* `messages:read`, on the next event that arrives
handleStatusEvent(userId) ==
    /\ statusInbox[userId] # <<>>
    /\ LET ev == Head(statusInbox[userId])
       IN clientMessages' = [clientMessages EXCEPT ![userId] =
             IF ev.event = "message:delivered"
             THEN updateMessageStatus(@, ev.messageId, "delivered")
             ELSE IF ev.event = "message:read"
                  THEN updateMessageStatus(@, ev.messageId, "read")
                  ELSE markConversationRead(@, ev.conversationId)]
    /\ statusInbox' = [statusInbox EXCEPT ![userId] = Tail(@)]
    /\ response' = NoResponse
    /\ UNCHANGED <<store, queue, isRunning, hub, tasks, outputs, authResult,
                   keyStore, socketState, handlerSocket, handled, emits, receipts,
                   relayedReceipts, inbound, keyEvents, posts, crypto, returned,
                   typing, legacy>>

\* ------------------------------------------------------ session: typing
\* socket.user.username of the connections of a user
Usernames == [A |-> "alice", B |-> "bob", C |-> "carol"]

\* the pending auto-stop timers of a session for a conversation
pendingTimeouts(userId, conversationId) ==
    {t \in timeouts : t.userId = userId /\ t.conversationId = conversationId}

\* timeouts after clearTimeout(typingTimeoutRef.current[conversationId])
clearTimeout(userId, conversationId) ==
    {t \in timeouts : ~(/\ t.userId = userId
                        /\ t.conversationId = conversationId
                        /\ t.id = typingTimeoutRef[userId][conversationId])}

\* the id setTimeout returns: one that no pending timer and no reference has
setTimeout(userId, conversationId) ==
    CHOOSE k \in 1..(Cardinality(timeouts) + 2) :
        /\ k # typingTimeoutRef[userId][conversationId]
        /\ \A t \in pendingTimeouts(userId, conversationId) : t.id # k
        /\ \A j \in 1..(k - 1) :
              \/ j = typingTimeoutRef[userId][conversationId]
              \/ \E t \in pendingTimeouts(userId, conversationId) : t.id = j

\* socket.on('typing:start') and socket.on('typing:stop') on the server: the
\* event relayed to the conversation room except the socket it came from.
\* The relayed typing:stop carries no username.
typingRelayed(socket, event, conversationId) ==
    typingEvents (+) SetToBag(
        {[to |-> s.userId, event |-> event, conversationId |-> conversationId,
          userId |-> socket.userId,
          username |-> IF event = "typing:start" THEN Usernames[socket.userId]
                       ELSE None] :
            s \in ConversationRoom(conversationId) \ {socket}})

\* sendTyping that sets a new timer without clearing the one it has
sendTyping_keepsTimer(userId, conversationId, isTyping) ==
    /\ socketConnected(userId)
    /\ LET socket == CHOOSE s \in liveSocket(userId, socketState[userId]) : TRUE
       IN IF isTyping
          THEN /\ lastTyping' = [lastTyping EXCEPT ![userId][conversationId] = "start"]
               /\ typingEvents' = typingRelayed(socket, "typing:start", conversationId)
               /\ timeouts' = timeouts \cup
                     {[userId |-> userId, conversationId |-> conversationId,
                       id |-> setTimeout(userId, conversationId), n |-> socket.n]}
               /\ typingTimeoutRef' = [typingTimeoutRef EXCEPT
                     ![userId][conversationId] = setTimeout(userId, conversationId)]
          ELSE /\ lastTyping' = [lastTyping EXCEPT ![userId][conversationId] = "stop"]
               /\ typingEvents' = typingRelayed(socket, "typing:stop", conversationId)
               /\ timeouts' = clearTimeout(userId, conversationId)
               /\ UNCHANGED typingTimeoutRef
    /\ response' = NoResponse
    /\ UNCHANGED <<store, queue, isRunning, hub, tasks, outputs, authResult, client,
                   crypto, returned, statusInbox, typingUsers, legacy>>

\* sendTyping(conversationId, isTyping) of a connected session (it returns at
\* once otherwise), with the server's relay of the event it emits
sendTyping(userId, conversationId, isTyping) ==
    /\ socketConnected(userId)
    /\ LET socket == CHOOSE s \in liveSocket(userId, socketState[userId]) : TRUE
       IN IF isTyping
          THEN /\ lastTyping' = [lastTyping EXCEPT ![userId][conversationId] = "start"]
               /\ typingEvents' = typingRelayed(socket, "typing:start", conversationId)
               /\ timeouts' = clearTimeout(userId, conversationId) \cup
                     {[userId |-> userId, conversationId |-> conversationId,
                       id |-> setTimeout(userId, conversationId), n |-> socket.n]}
               /\ typingTimeoutRef' = [typingTimeoutRef EXCEPT
                     ![userId][conversationId] = setTimeout(userId, conversationId)]
          ELSE /\ lastTyping' = [lastTyping EXCEPT ![userId][conversationId] = "stop"]
               /\ typingEvents' = typingRelayed(socket, "typing:stop", conversationId)
               /\ timeouts' = clearTimeout(userId, conversationId)
               /\ UNCHANGED typingTimeoutRef
    /\ response' = NoResponse
    /\ UNCHANGED <<store, queue, isRunning, hub, tasks, outputs, authResult, client,
                   crypto, returned, statusInbox, typingUsers, legacy>>

\* the setTimeout callback, 3 s after the typing:start: it emits typing:stop
\* on the socket sendTyping had; the server relays it if that socket is live
typingTimeout(t) ==
    /\ t \in timeouts
    /\ timeouts' = timeouts \ {t}
    /\ lastTyping' = [lastTyping EXCEPT ![t.userId][t.conversationId] = "stop"]
    /\ typingEvents' =
          IF liveSocket(t.userId, t.n) # {}
          THEN typingRelayed(CHOOSE s \in liveSocket(t.userId, t.n) : TRUE,
                             "typing:stop", t.conversationId)
          ELSE typingEvents
    /\ response' = NoResponse
    /\ UNCHANGED <<store, queue, isRunning, hub, tasks, outputs, authResult, client,
                   crypto, returned, statusInbox, typingTimeoutRef, typingUsers,
                   legacy>>

\* the session's handlers of `typing:start` and `typing:stop`
handleTyping(ev) ==
    /\ BagIn(ev, typingEvents)
    /\ typingEvents' = DropTask(typingEvents, ev)
    /\ typingUsers' = [typingUsers EXCEPT ![ev.to][ev.conversationId] =
          IF ev.event = "typing:start"
          THEN Append(@, ev.username)
          ELSE SelectSeq(@, LAMBDA u : u # ev.username)]
    /\ response' = NoResponse
    /\ UNCHANGED <<store, queue, isRunning, hub, tasks, outputs, authResult, client,
                   crypto, returned, statusInbox, typingTimeoutRef, timeouts,
                   lastTyping, legacy>>

\* --------------------------------------------------- legacy send route
\* req.callDependency(request, fallback): the dependency's answer, or the
\* fallback when the call fails
callDependency(ok, answer, fallback) == IF ok THEN answer ELSE fallback

\* MessageMock.create on the mock store
MessageMock_create(messageData) == Append(mockMessages, messageData)

\* router.post('/') up to its await of callDependency: the receiver is looked
\* up (404), must not be the sender (400), and the message is created.  With
\* MongoDB the handler calls MessageMongo.generateConversationId, which the
\* Message model does not define: the TypeError goes to next(err).
postMessage_create(userId, receiver, useMongoDB) ==
    /\ IF receiver \notin Users
       THEN /\ response' = [op |-> "postMessage", status |-> 404]
            /\ UNCHANGED legacy
       ELSE IF receiver = userId
       THEN /\ response' = [op |-> "postMessage", status |-> 400]
            /\ UNCHANGED legacy
       ELSE IF useMongoDB
       THEN /\ response' = [op |-> "postMessage", status |-> 500]
            /\ UNCHANGED legacy
       ELSE /\ mockMessages' = MessageMock_create(
                   [sender |-> userId, receiver |-> receiver])
            /\ notifying' = AddTask(notifying,
                   [pc |-> "notify", userId |-> userId, receiver |-> receiver,
                    messageId |-> Len(mockMessages) + 1,
                    dependencyFailed |-> FALSE, notificationResult |-> None])
            /\ response' = NoResponse
    /\ UNCHANGED <<store, queue, isRunning, hub, tasks, outputs, authResult, client,
                   crypto, ui>>

\* the await of callDependency resumes: with the notification service's
\* answer, or with the fallback {delivered: false}
postMessage_notify(t, ok, delivered) ==
    /\ BagIn(t, notifying) /\ t.pc = "notify"
    /\ notifying' = AddTask(DropTask(notifying, t),
          [t EXCEPT !.pc = "respond", !.dependencyFailed = ~ok,
                    !.notificationResult =
                        callDependency(ok, [delivered |-> delivered],
                                       [delivered |-> FALSE])])
    /\ response' = NoResponse
    /\ UNCHANGED <<store, queue, isRunning, hub, tasks, outputs, authResult, client,
                   crypto, ui, mockMessages>>

\* a handler that fails the request and removes the message when the
\* dependency call failed
postMessage_respond_rollsBack(t) ==
    /\ BagIn(t, notifying) /\ t.pc = "respond"
    /\ notifying' = DropTask(notifying, t)
    /\ IF t.dependencyFailed
       THEN /\ response' = [op |-> "postMessage", status |-> 500]
            /\ mockMessages' = SubSeq(mockMessages, 1, t.messageId - 1)
       ELSE /\ response' = [op |-> "postMessage", status |-> 201,
                            message |-> t.messageId,
                            notificationDelivered |-> t.notificationResult.delivered]
            /\ UNCHANGED mockMessages
    /\ UNCHANGED <<store, queue, isRunning, hub, tasks, outputs, authResult, client,
                   crypto, ui>>

\* res.status(201).json({... meta: {notificationDelivered:
\* notificationResult?.delivered || false}})
postMessage_respond(t) ==
    /\ BagIn(t, notifying) /\ t.pc = "respond"
    /\ notifying' = DropTask(notifying, t)
    /\ response' = [op |-> "postMessage", status |-> 201, message |-> t.messageId,
                    notificationDelivered |-> t.notificationResult.delivered]
    /\ UNCHANGED <<store, queue, isRunning, hub, tasks, outputs, authResult, client,
                   crypto, ui, mockMessages>>

\* ------------------------------------------------------------ specification
Init ==
    /\ conversations = <<>>
    /\ messages = <<>>
    /\ queue = <<>>
    /\ isRunning = FALSE
    /\ connectedUsers = {}
    /\ sockets = {}
    /\ timers = EmptyBag
    /\ statusEvent = NoStatus
    /\ sends = EmptyBag
    /\ reads = EmptyBag
    /\ deletes = EmptyBag
    /\ sweeps = EmptyBag
    /\ pendings = EmptyBag
    /\ emitted = [m \in MsgIds |-> 0]
    /\ received = [m \in MsgIds |-> 0]
    /\ deliveredNotices = [m \in MsgIds |-> 0]
    /\ deletedEvents = {}
    /\ readEvents = {}
    /\ response = NoResponse
    /\ authResult = "none"
    /\ keyStore = [u \in Users |-> [k \in KeyNames |-> NoKey]]
    /\ socketState = [u \in Users |-> 0]
    /\ handlerSocket = [u \in Users |-> 0]
    /\ handled = [m \in MsgIds |-> 0]
    /\ clientMessages = [u \in Users |-> <<>>]
    /\ emits = [m \in MsgIds |-> 0]
    /\ receipts = EmptyBag
    /\ relayedReceipts = {}
    /\ inbound = EmptyBag
    /\ keyEvents = EmptyBag
    /\ posts = EmptyBag
    /\ sealed = NoSealed
    /\ opened = NoOpened
    /\ returned = NoReturn
    /\ statusInbox = [u \in Users |-> <<>>]
    /\ typingTimeoutRef = [u \in Users |-> [c \in ConvIds |-> 0]]
    /\ timeouts = {}
    /\ lastTyping = [u \in Users |-> [c \in ConvIds |-> "none"]]
    /\ typingEvents = EmptyBag
    /\ typingUsers = [u \in Users |-> [c \in ConvIds |-> <<>>]]
    /\ mockMessages = <<>>
    /\ notifying = EmptyBag

\* The behaviours are checked scenario by scenario; each specification below
\* takes the handlers of one scenario and bounds how many requests it admits.

\* Sending: presence changes and sendMessage with every request shape
NextSend ==
    \/ \E u \in Users :
          /\ Cardinality(sockets) < MaxSockets /\ connection(u)
          /\ UNCHANGED ext
    \/ \E s \in sockets :
          /\ BagCardinality(timers) < MaxTimers /\ disconnect(s)
          /\ UNCHANGED ext
    \/ \E u \in Users :
          /\ offlineTimer(u)
          /\ UNCHANGED ext
    \/ \E s \in sockets, c \in DOMAIN conversations :
          /\ joinConversation(s, c)
          /\ UNCHANGED ext
    \/ \E s \in sockets, c \in DOMAIN conversations :
          /\ leaveConversation(s, c)
          /\ UNCHANGED ext
    \/ \E u \in Users, c \in {0} \cup ConvIds, r \in Users \cup {None},
          content \in Contents :
          /\ Len(messages) + BagCardinality(sends) < MaxMsgs
          /\ sendMessage_begin(u, c, r, content)
          /\ UNCHANGED ext
    \/ \E t \in BagToSet(sends) :
          /\ sendMessage_create(t)
          /\ UNCHANGED ext
    \/ \E t \in BagToSet(sends) :
          /\ sendMessage_dispatch(t)
          /\ UNCHANGED ext

SpecSend == Init /\ [][NextSend]_vars

\* Delivery: A sends to B while B connects, disconnects, reads, and the queue
\* worker and deliverPendingMessages run
NextDelivery ==
    \/ /\ Cardinality(sockets) < MaxSockets /\ connection("B")
       /\ UNCHANGED ext
    \/ \E s \in sockets :
          /\ BagCardinality(timers) < MaxTimers /\ disconnect(s)
          /\ UNCHANGED ext
    \/ \E u \in Users :
          /\ offlineTimer(u)
          /\ UNCHANGED ext
    \/ \E s \in sockets, c \in DOMAIN conversations :
          /\ joinConversation(s, c)
          /\ UNCHANGED ext
    \/ \E s \in sockets, c \in DOMAIN conversations :
          /\ leaveConversation(s, c)
          /\ UNCHANGED ext
    \/ /\ Len(messages) + BagCardinality(sends) < MaxQueued
       /\ sendMessage_begin("A", 0, "B", [encrypted |-> TRUE, iv |-> TRUE])
       /\ UNCHANGED ext
    \/ \E t \in BagToSet(sends) :
          /\ sendMessage_create(t)
          /\ UNCHANGED ext
    \/ \E t \in BagToSet(sends) :
          /\ sendMessage_dispatch(t)
          /\ UNCHANGED ext
    \/ \E m \in DOMAIN messages :
          /\ BagCardinality(reads) < MaxRequests /\ markRead_find("B", m)
          /\ UNCHANGED ext
    \/ \E t \in BagToSet(reads) :
          /\ markRead_save(t)
          /\ UNCHANGED ext
    \/ \E c \in DOMAIN conversations :
          /\ getMessages("B", c)
          /\ UNCHANGED ext
    \/ /\ start
       /\ UNCHANGED ext
    \/ /\ BagCardinality(sweeps) < MaxSweeps /\ processQueue_start
       /\ UNCHANGED ext
    \/ \E t \in BagToSet(sweeps) :
          /\ processQueue_deliver(t)
          /\ UNCHANGED ext
    \/ \E t \in BagToSet(sweeps) :
          /\ processQueue_next(t)
          /\ UNCHANGED ext
    \/ /\ BagCardinality(pendings) < MaxPending /\ deliverPendingMessages_find("B")
       /\ UNCHANGED ext
    \/ \E t \in BagToSet(pendings) :
          /\ deliverPendingMessages_push(t)
          /\ UNCHANGED ext
    \/ \E t \in BagToSet(pendings) :
          /\ deliverPendingMessages_notify(t)
          /\ UNCHANGED ext

SpecDelivery == Init /\ [][NextDelivery]_vars

\* Deletion: A sends to B; A, B and the outsider C delete it, for themselves or
\* for everyone, two requests at a time
NextStore ==
    \/ /\ Len(messages) + BagCardinality(sends) < MaxStored
       /\ sendMessage_begin("A", 0, "B", [encrypted |-> TRUE, iv |-> TRUE])
       /\ UNCHANGED ext
    \/ \E t \in BagToSet(sends) :
          /\ sendMessage_create(t)
          /\ UNCHANGED ext
    \/ \E t \in BagToSet(sends) :
          /\ sendMessage_dispatch(t)
          /\ UNCHANGED ext
    \/ \E u \in Users, m \in MsgIds, e \in BOOLEAN :
          /\ BagCardinality(deletes) < MaxDeletes /\ deleteMessage_find(u, m, e)
          /\ UNCHANGED ext
    \/ \E t \in BagToSet(deletes) :
          /\ deleteMessage_save(t)
          /\ UNCHANGED ext

SpecStore == Init /\ [][NextStore]_vars

\* Presence: handshakes with every kind of token and account, several
\* connections per user, disconnects and their offline timers
NextPresence ==
    \/ \E u \in Users, token \in TokenKinds, found \in Lookups :
          /\ Cardinality(sockets) < MaxLive
          /\ handshake(u, token, found)
    \/ \E s \in sockets :
          /\ BagCardinality(timers) < MaxGrace /\ disconnect(s)
          /\ UNCHANGED ext
    \/ \E u \in Users :
          /\ offlineTimer(u)
          /\ UNCHANGED ext

SpecPresence == Init /\ [][NextPresence]_vars

\* Access: A sends to B; the outsider C sends into their conversation by its
\* id; the participant B and the outsider C mark the message read or delete it
NextAccess ==
    \/ /\ Len(messages) + BagCardinality(sends) < MaxStored
       /\ sendMessage_begin("A", 0, "B", [encrypted |-> TRUE, iv |-> TRUE])
       /\ UNCHANGED ext
    \/ \E c \in DOMAIN conversations :
          /\ Len(messages) + BagCardinality(sends) < MaxMsgs
          /\ sendMessage_begin("C", c, None, [encrypted |-> TRUE, iv |-> TRUE])
          /\ UNCHANGED ext
    \/ \E t \in BagToSet(sends) :
          /\ sendMessage_create(t)
          /\ UNCHANGED ext
    \/ \E t \in BagToSet(sends) :
          /\ sendMessage_dispatch(t)
          /\ UNCHANGED ext
    \/ \E u \in {"B", "C"}, m \in MsgIds :
          /\ BagCardinality(reads) < MaxRequests /\ markRead_find(u, m)
          /\ UNCHANGED ext
    \/ \E t \in BagToSet(reads) :
          /\ markRead_save(t)
          /\ UNCHANGED ext
    \/ \E u \in {"B", "C"}, m \in MsgIds, e \in BOOLEAN :
          /\ BagCardinality(deletes) < MaxRequests /\ deleteMessage_find(u, m, e)
          /\ UNCHANGED ext
    \/ \E t \in BagToSet(deletes) :
          /\ deleteMessage_save(t)
          /\ UNCHANGED ext

SpecAccess == Init /\ [][NextAccess]_vars

\* Validation: sendMessage with every request shape, with nobody connected
NextValidate ==
    \/ \E u \in Users, c \in {0} \cup ConvIds, r \in Users \cup {None},
          content \in Contents :
          /\ Len(messages) + BagCardinality(sends) < MaxMsgs
          /\ sendMessage_begin(u, c, r, content)
          /\ UNCHANGED ext
    \/ \E t \in BagToSet(sends) :
          /\ sendMessage_create(t)
          /\ UNCHANGED ext
    \/ \E t \in BagToSet(sends) :
          /\ sendMessage_dispatch(t)
          /\ UNCHANGED ext

SpecValidate == Init /\ [][NextValidate]_vars

\* Paging: A sends B messages, and A and B delete them, for themselves or for
\* everyone
NextPage ==
    \/ /\ Len(messages) + BagCardinality(sends) < MaxMsgs
       /\ sendMessage_begin("A", 0, "B", [encrypted |-> TRUE, iv |-> TRUE])
       /\ UNCHANGED ext
    \/ \E t \in BagToSet(sends) :
          /\ sendMessage_create(t)
          /\ UNCHANGED ext
    \/ \E t \in BagToSet(sends) :
          /\ sendMessage_dispatch(t)
          /\ UNCHANGED ext
    \/ \E u \in {"A", "B"}, m \in MsgIds, e \in BOOLEAN :
          /\ BagCardinality(deletes) < MaxRequests /\ deleteMessage_find(u, m, e)
          /\ UNCHANGED ext
    \/ \E t \in BagToSet(deletes) :
          /\ deleteMessage_save(t)
          /\ UNCHANGED ext

SpecPage == Init /\ [][NextPage]_vars

\* Encryption: encrypt on either side with every string, key and iv, then
\* decrypt with the same or another key
NextCrypto ==
    \/ \E side \in {"client", "server"}, plaintext \in Strings,
          key \in {sharedKey("A", "B"), randomKey("A", 1)}, iv \in IVs :
          encryptCall(side, plaintext, key, iv)
    \/ \E key \in {sharedKey("A", "B"), randomKey("A", 1)} :
          decryptCall(key)

SpecCrypto == Init /\ [][NextCrypto]_vars

\* Sessions: A and B connect, join their conversation, exchange public keys
\* and send each other messages from their sessions
NextClient ==
    \/ \E u \in {"A", "B"} :
          /\ Cardinality(sockets) < MaxLive
          /\ connect(u)
    \/ \E s \in sockets, c \in DOMAIN conversations :
          /\ joinConversation(s, c)
          /\ UNCHANGED ext
    \/ \E s \in sockets, r \in {"A", "B"} :
          /\ r # s.userId
          /\ BagCardinality(keyEvents) < MaxPending
          /\ keyStore[r][userKeyName(s.userId)] = NoKey
          /\ keysExchange(s, r)
    \/ \E ev \in BagToSet(keyEvents) : handleKeyExchange(ev)
    \/ \E u \in {"A", "B"}, c \in {0} \cup DOMAIN conversations :
          /\ Len(messages) + BagCardinality(sends) < MaxMsgs
          /\ BagCardinality(posts) < MaxRequests
          /\ \E now \in clockReadings(u) :
                clientSendMessage_begin(u, c, CHOOSE r \in {"A", "B"} : r # u,
                                        <<"a">>, "iv1", now)
    \/ \E t \in BagToSet(sends) :
          /\ sendMessage_create(t)
          /\ UNCHANGED ext
    \/ \E t \in BagToSet(sends) :
          /\ sendMessage_dispatch(t)
          /\ sendMessage_pushToOthers(t)
    \/ \E p \in BagToSet(posts), m \in DOMAIN messages : clientSendMessage_emit(p, m)
    \/ \E m \in DOMAIN messages : handleNewMessage(m)
    \/ \E ev \in BagToSet(inbound) : handleNewMessage_pushed(ev)
    \/ \E ev \in BagToSet(inbound) : handleNewMessage_relayed(ev)

SpecClient == Init /\ [][NextClient]_vars

\* Receipts: A sends B a message over REST; B's session connects, loses its
\* connection, disconnects, joins the conversation, handles the pushes and
\* marks the message read over REST; sessions emit receipts, which the server
\* relays.  Every handler that has started runs to its end.
NextReceipts ==
    \/ /\ Cardinality(sockets) < MaxSockets
       /\ connect("B")
    \/ /\ BagCardinality(timers) < MaxTimers
       /\ clientDisconnect("B")
    \/ \E s \in sockets :
          /\ BagCardinality(timers) < MaxTimers /\ disconnect(s)
          /\ UNCHANGED ext
    \/ \E u \in Users :
          /\ offlineTimer(u)
          /\ UNCHANGED ext
    \/ \E s \in sockets, c \in DOMAIN conversations :
          /\ joinConversation(s, c)
          /\ UNCHANGED ext
    \/ /\ Len(messages) + BagCardinality(sends) < MaxQueued
       /\ sendMessage_begin("A", 0, "B", [encrypted |-> TRUE, iv |-> TRUE])
       /\ UNCHANGED ext
    \/ \E t \in BagToSet(sends) :
          /\ sendMessage_create(t)
          /\ UNCHANGED ext
    \/ \E t \in BagToSet(sends) :
          /\ sendMessage_dispatch(t)
          /\ UNCHANGED ext
    \/ \E m \in DOMAIN messages :
          /\ BagCardinality(reads) < MaxRequests /\ markRead_find("B", m)
          /\ UNCHANGED ext
    \/ \E t \in BagToSet(reads) :
          /\ markRead_save(t)
          /\ UNCHANGED ext
    \/ \E m \in DOMAIN messages : handleNewMessage(m)
    \/ \E s \in sockets, m \in DOMAIN messages,
          event \in {"message:delivered", "message:read"} :
          /\ BagCardinality(receipts) < MaxPending
          /\ emitReceipt(s, event, m)
    \/ \E r \in BagToSet(receipts) : receiptRelay(r)

SpecReceipts ==
    /\ Init
    /\ [][NextReceipts]_vars
    /\ WF_vars(\E t \in BagToSet(sends) : sendMessage_create(t) /\ UNCHANGED ext)
    /\ WF_vars(\E t \in BagToSet(sends) : sendMessage_dispatch(t) /\ UNCHANGED ext)
    /\ WF_vars(\E t \in BagToSet(reads) : markRead_save(t) /\ UNCHANGED ext)
    /\ WF_vars(\E m \in DOMAIN messages : handleNewMessage(m))
    /\ WF_vars(\E r \in BagToSet(receipts) : receiptRelay(r))

\* Bulk read: A and C send to B and B sends to A; B connects and is delivered
\* what is pending; every user opens every conversation
NextBulk ==
    \/ /\ Cardinality(sockets) < MaxSockets /\ connection("B")
       /\ UNCHANGED ext
    \/ \E pair \in {<<"A", "B">>, <<"C", "B">>, <<"B", "A">>} :
          /\ Len(messages) + BagCardinality(sends) < MaxMsgs
          /\ sendMessage_begin(pair[1], 0, pair[2], [encrypted |-> TRUE, iv |-> TRUE])
          /\ UNCHANGED ext
    \/ \E t \in BagToSet(sends) :
          /\ sendMessage_create(t)
          /\ UNCHANGED ext
    \/ \E t \in BagToSet(sends) :
          /\ sendMessage_dispatch(t)
          /\ UNCHANGED ext
    \/ /\ BagCardinality(pendings) < MaxPending /\ deliverPendingMessages_find("B")
       /\ UNCHANGED ext
    \/ \E t \in BagToSet(pendings) :
          /\ deliverPendingMessages_push(t)
          /\ UNCHANGED ext
    \/ \E t \in BagToSet(pendings) :
          /\ deliverPendingMessages_notify(t)
          /\ UNCHANGED ext
    \/ \E u \in Users, c \in ConvIds :
          /\ getMessages(u, c)
          /\ UNCHANGED ext

SpecBulk == Init /\ [][NextBulk]_vars

\* Sweeps: A sends B messages while B connects and disconnects, and the queue
\* worker's runs overlap
NextSweep ==
    \/ /\ Cardinality(sockets) < MaxSockets /\ connection("B")
       /\ UNCHANGED ext
    \/ \E s \in sockets :
          /\ BagCardinality(timers) < MaxTimers /\ disconnect(s)
          /\ UNCHANGED ext
    \/ \E u \in Users :
          /\ offlineTimer(u)
          /\ UNCHANGED ext
    \/ /\ Len(messages) + BagCardinality(sends) < MaxMsgs
       /\ sendMessage_begin("A", 0, "B", [encrypted |-> TRUE, iv |-> TRUE])
       /\ UNCHANGED ext
    \/ \E t \in BagToSet(sends) :
          /\ sendMessage_create(t)
          /\ UNCHANGED ext
    \/ \E t \in BagToSet(sends) :
          /\ sendMessage_dispatch(t)
          /\ UNCHANGED ext
    \/ /\ start
       /\ UNCHANGED ext
    \/ /\ BagCardinality(sweeps) < MaxSweeps /\ processQueue_start
       /\ UNCHANGED ext
    \/ \E t \in BagToSet(sweeps) :
          /\ processQueue_deliver(t)
          /\ UNCHANGED ext
    \/ \E t \in BagToSet(sweeps) :
          /\ processQueue_next(t)
          /\ UNCHANGED ext

SpecSweep == Init /\ [][NextSweep]_vars

\* Retries: A sends B a message while B is offline; B connects; the queue
\* worker's runs find the store failing, at findById or at the save, or not
NextRetry ==
    \/ /\ Cardinality(sockets) < MaxSockets /\ connection("B")
       /\ UNCHANGED ext
    \/ /\ Len(messages) + BagCardinality(sends) < MaxQueued
       /\ sendMessage_begin("A", 0, "B", [encrypted |-> TRUE, iv |-> TRUE])
       /\ UNCHANGED ext
    \/ \E t \in BagToSet(sends) :
          /\ sendMessage_create(t)
          /\ UNCHANGED ext
    \/ \E t \in BagToSet(sends) :
          /\ sendMessage_dispatch(t)
          /\ UNCHANGED ext
    \/ /\ start
       /\ UNCHANGED ext
    \/ /\ BagCardinality(sweeps) < MaxSweeps /\ processQueue_start
       /\ UNCHANGED ext
    \/ \E t \in BagToSet(sweeps) :
          /\ processQueue_deliver(t)
          /\ UNCHANGED ext
    \/ \E t \in BagToSet(sweeps) :
          /\ processQueue_findFails(t)
          /\ UNCHANGED ext
    \/ \E t \in BagToSet(sweeps) :
          /\ processQueue_saveFails(t)
          /\ UNCHANGED ext
    \/ \E t \in BagToSet(sweeps) :
          /\ processQueue_next(t)
          /\ UNCHANGED ext

SpecRetry == Init /\ [][NextRetry]_vars

\* Draining: A sends B a message; B connects, loses the connection and reads
\* the message over REST while the queue worker runs.  Every handler that has
\* started runs to its end, the store calls succeed, and the worker's timer
\* keeps firing; a run ends before the next one starts.
NextDrain ==
    \/ /\ Cardinality(sockets) < MaxSockets /\ connection("B")
       /\ UNCHANGED ext
    \/ \E s \in sockets :
          /\ BagCardinality(timers) < MaxTimers /\ disconnect(s)
          /\ UNCHANGED ext
    \/ \E u \in Users :
          /\ offlineTimer(u)
          /\ UNCHANGED ext
    \/ /\ Len(messages) + BagCardinality(sends) < MaxQueued
       /\ sendMessage_begin("A", 0, "B", [encrypted |-> TRUE, iv |-> TRUE])
       /\ UNCHANGED ext
    \/ \E t \in BagToSet(sends) :
          /\ sendMessage_create(t)
          /\ UNCHANGED ext
    \/ \E t \in BagToSet(sends) :
          /\ sendMessage_dispatch(t)
          /\ UNCHANGED ext
    \/ \E m \in DOMAIN messages :
          /\ BagCardinality(reads) < MaxRequests /\ markRead_find("B", m)
          /\ UNCHANGED ext
    \/ \E t \in BagToSet(reads) :
          /\ markRead_save(t)
          /\ UNCHANGED ext
    \/ /\ start
       /\ UNCHANGED ext
    \/ /\ BagCardinality(sweeps) < MaxRuns /\ processQueue_start
       /\ UNCHANGED ext
    \/ \E t \in BagToSet(sweeps) :
          /\ processQueue_deliver(t)
          /\ UNCHANGED ext
    \/ \E t \in BagToSet(sweeps) :
          /\ processQueue_next(t)
          /\ UNCHANGED ext

SpecDrain ==
    /\ Init
    /\ [][NextDrain]_vars
    /\ WF_vars(\E t \in BagToSet(sends) : sendMessage_create(t) /\ UNCHANGED ext)
    /\ WF_vars(\E t \in BagToSet(sends) : sendMessage_dispatch(t) /\ UNCHANGED ext)
    /\ WF_vars(\E t \in BagToSet(reads) : markRead_save(t) /\ UNCHANGED ext)
    /\ WF_vars(start /\ UNCHANGED ext)
    /\ WF_vars(BagCardinality(sweeps) < MaxRuns /\ processQueue_start
               /\ UNCHANGED ext)
    /\ WF_vars(\E t \in BagToSet(sweeps) : processQueue_deliver(t) /\ UNCHANGED ext)
    /\ WF_vars(\E t \in BagToSet(sweeps) : processQueue_next(t) /\ UNCHANGED ext)

\* Recall: A sends B a message and deletes it for everyone while B connects
\* and disconnects, the queue worker runs and the reconnect hook delivers
\* what is pending
NextRecall ==
    \/ /\ Cardinality(sockets) < MaxSockets /\ connection("B")
       /\ UNCHANGED ext
    \/ \E s \in sockets :
          /\ BagCardinality(timers) < MaxTimers /\ disconnect(s)
          /\ UNCHANGED ext
    \/ \E u \in Users :
          /\ offlineTimer(u)
          /\ UNCHANGED ext
    \/ /\ Len(messages) + BagCardinality(sends) < MaxQueued
       /\ sendMessage_begin("A", 0, "B", [encrypted |-> TRUE, iv |-> TRUE])
       /\ UNCHANGED ext
    \/ \E t \in BagToSet(sends) :
          /\ sendMessage_create(t)
          /\ UNCHANGED ext
    \/ \E t \in BagToSet(sends) :
          /\ sendMessage_dispatch(t)
          /\ UNCHANGED ext
    \/ \E m \in DOMAIN messages :
          /\ BagCardinality(deletes) < MaxRequests /\ deleteMessage_find("A", m, TRUE)
          /\ UNCHANGED ext
    \/ \E t \in BagToSet(deletes) :
          /\ deleteMessage_save(t)
          /\ UNCHANGED ext
    \/ /\ start
       /\ UNCHANGED ext
    \/ /\ BagCardinality(sweeps) < MaxRuns /\ processQueue_start
       /\ UNCHANGED ext
    \/ \E t \in BagToSet(sweeps) :
          /\ processQueue_deliver(t)
          /\ UNCHANGED ext
    \/ \E t \in BagToSet(sweeps) :
          /\ processQueue_next(t)
          /\ UNCHANGED ext
    \/ /\ BagCardinality(pendings) < MaxPending /\ deliverPendingMessages_find("B")
       /\ UNCHANGED ext
    \/ \E t \in BagToSet(pendings) :
          /\ deliverPendingMessages_push(t)
          /\ UNCHANGED ext
    \/ \E t \in BagToSet(pendings) :
          /\ deliverPendingMessages_notify(t)
          /\ UNCHANGED ext

SpecRecall == Init /\ [][NextRecall]_vars

\* Addressing: A and B open a conversation; then either of them sends into it
\* by its id, naming any user, or nobody, as the recipient
NextAddress ==
    \/ \E u \in {"A", "B"} :
          /\ conversations = <<>> /\ sends = EmptyBag
          /\ sendMessage_begin(u, 0, CHOOSE r \in {"A", "B"} : r # u,
                               [encrypted |-> TRUE, iv |-> TRUE])
          /\ UNCHANGED ext
    \/ \E u \in {"A", "B"}, c \in DOMAIN conversations, r \in Users \cup {None} :
          /\ Len(messages) + BagCardinality(sends) < MaxMsgs
          /\ sendMessage_begin(u, c, r, [encrypted |-> TRUE, iv |-> TRUE])
          /\ UNCHANGED ext
    \/ \E t \in BagToSet(sends) :
          /\ sendMessage_create(t)
          /\ UNCHANGED ext
    \/ \E t \in BagToSet(sends) :
          /\ sendMessage_dispatch(t)
          /\ UNCHANGED ext

SpecAddress == Init /\ [][NextAddress]_vars

\* Rooms: A sends B messages over REST; B and the outsider C connect, join
\* and leave conversation rooms and emit receipts, which the server relays
NextRooms ==
    \/ \E u \in {"B", "C"} :
          /\ Cardinality(sockets) < MaxLive /\ connection(u)
          /\ UNCHANGED ext
    \/ \E s \in sockets, c \in DOMAIN conversations :
          /\ joinConversation(s, c)
          /\ UNCHANGED ext
    \/ \E s \in sockets, c \in DOMAIN conversations :
          /\ leaveConversation(s, c)
          /\ UNCHANGED ext
    \/ /\ Len(messages) + BagCardinality(sends) < MaxQueued
       /\ sendMessage_begin("A", 0, "B", [encrypted |-> TRUE, iv |-> TRUE])
       /\ UNCHANGED ext
    \/ \E t \in BagToSet(sends) :
          /\ sendMessage_create(t)
          /\ UNCHANGED ext
    \/ \E t \in BagToSet(sends) :
          /\ sendMessage_dispatch(t)
          /\ sendMessage_pushToOthers(t)
    \/ \E ev \in BagToSet(inbound) : handleNewMessage_pushed(ev)
    \/ \E s \in sockets, m \in DOMAIN messages,
          event \in {"message:delivered", "message:read"} :
          /\ BagCardinality(receipts) < MaxPending
          /\ emitReceipt(s, event, m)
    \/ \E r \in BagToSet(receipts) : receiptRelay(r)

SpecRooms == Init /\ [][NextRooms]_vars

\* Outbox: A's session connects and disconnects and sends B messages, into
\* conversations that exist and into ones that do not; encryption may throw
NextOutbox ==
    \/ /\ Cardinality(sockets) < MaxSockets
       /\ connect("A")
    \/ /\ BagCardinality(timers) < MaxTimers
       /\ clientDisconnect("A")
    \/ \E u \in Users :
          /\ offlineTimer(u)
          /\ UNCHANGED ext
    \/ \E c \in {0} \cup ConvIds :
          /\ Len(messages) + BagCardinality(sends) < MaxMsgs
          /\ BagCardinality(posts) < MaxRequests
          /\ Len(clientMessages["A"]) < MaxMsgs
          /\ \E now \in clockReadings("A") :
                clientSendMessage_begin("A", c, "B", <<"a">>, "iv1", now)
    \/ clientSendMessage_notConnected("A")
    \/ \E c \in {0} \cup ConvIds, stored \in BOOLEAN :
          clientSendMessage_encryptFails("A", c, stored)
    \/ \E t \in BagToSet(sends) :
          /\ sendMessage_create(t)
          /\ UNCHANGED ext
    \/ \E t \in BagToSet(sends) :
          /\ sendMessage_dispatch(t)
          /\ sendMessage_pushToOthers(t)
    \/ \E p \in BagToSet(posts), m \in DOMAIN messages : clientSendMessage_emit(p, m)

SpecOutbox == Init /\ [][NextOutbox]_vars

\* Status: B opens a conversation with A over REST; A's session sends B a
\* message in it and stays in the conversation room;
\* B's session emits delivered receipts for it and B reads the conversation
\* over REST;
\* the server's status events arrive at A's session in the order it sent them
NextStatus ==
    \/ /\ Cardinality(sockets) < MaxLive
       /\ connect("A")
    \/ /\ UserRoom("B") = {}
       /\ connection("B")
       /\ UNCHANGED ext
    \/ \E s \in UserRoom("A"), c \in DOMAIN conversations :
          /\ joinConversation(s, c)
          /\ UNCHANGED ext
    \/ /\ conversations = <<>> /\ sends = EmptyBag
       /\ sendMessage_begin("B", 0, "A", [encrypted |-> TRUE, iv |-> TRUE])
       /\ UNCHANGED ext
    \/ \E c \in DOMAIN conversations :
          /\ Len(messages) + BagCardinality(sends) < MaxMsgs
          /\ BagCardinality(posts) < MaxRequests
          /\ \E now \in clockReadings("A") :
                clientSendMessage_begin("A", c, "B", <<"a">>, "iv1", now)
    \/ \E t \in BagToSet(sends) :
          /\ sendMessage_create(t)
          /\ UNCHANGED ext
    \/ \E t \in BagToSet(sends) :
          /\ sendMessage_dispatch(t)
          /\ sendMessage_pushToOthers(t)
    \/ \E p \in BagToSet(posts), m \in DOMAIN messages : clientSendMessage_emit(p, m)
    \/ \E s \in UserRoom("B"), m \in DOMAIN messages :
          /\ BagCardinality(receipts) < MaxPending
          /\ emitReceipt(s, "message:delivered", m)
    \/ \E r \in BagToSet(receipts) :
          /\ \A u \in Users : Len(statusInbox[u]) < MaxInbox
          /\ receiptRelay_toSessions(r)
    \/ \E c \in DOMAIN conversations :
          /\ \A u \in Users : Len(statusInbox[u]) < MaxInbox
          /\ getMessages("B", c)
          /\ getMessages_toSessions("B", c)
    \/ \E u \in Users : handleStatusEvent(u)

SpecStatus == Init /\ [][NextStatus]_vars

\* Typing: A's session connects, disconnects and signals typing in a
\* conversation; B's connection is in the conversation's room and B's session
\* handles the relayed events.  The timer of a conversation fires in the end
\* if it stays pending.
NextTyping ==
    \/ /\ Cardinality(sockets) < MaxLive
       /\ connect("A")
    \/ /\ BagCardinality(timers) < MaxTimers
       /\ clientDisconnect("A")
    \/ \E u \in Users :
          /\ offlineTimer(u)
          /\ UNCHANGED ext
    \/ /\ UserRoom("B") = {}
       /\ connection("B")
       /\ UNCHANGED ext
    \/ \E s \in UserRoom("B"), c \in ConvIds :
          /\ joinConversation(s, c)
          /\ UNCHANGED ext
    \/ \E c \in ConvIds, isTyping \in BOOLEAN :
          /\ BagCardinality(typingEvents) < MaxPending
          /\ sendTyping("A", c, isTyping)
    \/ \E t \in timeouts : typingTimeout(t)
    \/ \E ev \in BagToSet(typingEvents) :
          /\ ev.event = "typing:start"
                => Len(typingUsers[ev.to][ev.conversationId]) < MaxTyping
          /\ handleTyping(ev)

SpecTyping ==
    /\ Init
    /\ [][NextTyping]_vars
    /\ \A c \in ConvIds :
          WF_vars(\E t \in pendingTimeouts("A", c) : typingTimeout(t))

\* Legacy route: users post messages to each other, to themselves and to
\* users that do not exist, on the mock store and on MongoDB; the notification
\* service answers or fails
NextLegacy ==
    \/ \E u \in Users, receiver \in Users \cup {None}, useMongoDB \in BOOLEAN :
          /\ Len(mockMessages) < MaxMsgs
          /\ BagCardinality(notifying) < MaxMsgs
          /\ postMessage_create(u, receiver, useMongoDB)
    \/ \E t \in BagToSet(notifying), ok \in BOOLEAN, delivered \in BOOLEAN :
          postMessage_notify(t, ok, delivered)
    \/ \E t \in BagToSet(notifying) : postMessage_respond(t)

SpecLegacy == Init /\ [][NextLegacy]_vars

\* --------------------------------------------------------------- properties
\* the entries queued for a user (none when the Map has no such key)
QueuedUnder(q, userId) == IF QHas(q, userId) THEN QGet(q, userId) ELSE <<>>

\* how many entries of an array name the message
CountEntries(arr, messageId) ==
    Cardinality({i \in DOMAIN arr : arr[i].messageId = messageId})

\* the message is on the page getConversationMessages returns to the user
Visible(userId, messageId) ==
    messageId \in Range(getConversationMessages(
                            messages[messageId].conversationId, DefaultLimit, userId))

\* C1: status monotonicity.  Once a message's status is read, no step of
\* markDelivered, markRead, markAllRead, processQueue or
\* deliverPendingMessages, however interleaved, takes it back to delivered or
\* sent.
C1_ReadNeverRegresses ==
    [][\A m \in DOMAIN messages :
          messages[m].status = "read" => messages'[m].status = "read"]_vars

\* C2: no double delivery.  The server pushes a message to its recipient at
\* most once, whether the queue sweep and the reconnect delivery run one
\* after the other or overlap.
C2_PushedAtMostOnce == \A m \in DOMAIN messages : received[m] <= 1

C4_ExactlyOneNotice ==
    \A m \in DOMAIN messages :
        (/\ messages[m].deliveredTo # <<>>
         /\ sweeps = EmptyBag
         /\ pendings = EmptyBag)
        => deliveredNotices[m] = 1

C6_MarkReadTwice ==
    \A m \in DOMAIN messages, u \in Users :
        LET once == markRead(messages[m], u)
            twice == markRead(once, u)
        IN /\ Count(twice.readBy, u) = 1
           /\ twice.status = "read"
           /\ twice = once

C8_OnlySenderDeletesForEveryone ==
    [][/\ \A t \in BagToSet(deletes) :
             (/\ CopiesIn(t, deletes') < CopiesIn(t, deletes)
              /\ t.forEveryone
              /\ messages[t.messageId].sender # t.userId)
             => /\ response' = [op |-> "deleteMessage", status |-> 403]
                /\ messages' = messages
                /\ deletedEvents' = deletedEvents
       /\ \A m \in DOMAIN messages :
             (~messages[m].deleted /\ messages'[m].deleted)
             => \E t \in BagToSet(deletes) :
                   /\ CopiesIn(t, deletes') < CopiesIn(t, deletes)
                   /\ t.messageId = m
                   /\ t.forEveryone
                   /\ t.userId = messages[m].sender]_vars

\* a non-sender's delete-for-everyone was just rejected and the message stands
C8_Witness ==
    /\ response = [op |-> "deleteMessage", status |-> 403]
    /\ deletes = EmptyBag
    /\ \E m \in DOMAIN messages : ~messages[m].deleted /\ Visible("B", m)
    /\ deletedEvents = {}

\* C9: a delete-for-me request of user u on message m is always permitted;
\* once it completes getConversationMessages no longer returns m to u, the
\* deleted flag of m and what every other user is returned are as before;
\* and a message hidden from u this way stays hidden from u.
C9_DeleteForMeHidesFromRequester ==
    [][/\ \A t \in BagToSet(deletes) :
             (CopiesIn(t, deletes') < CopiesIn(t, deletes) /\ ~t.forEveryone)
             => /\ response' = [op |-> "deleteMessage", status |-> 200]
                /\ ~Visible(t.userId, t.messageId)'
                /\ messages'[t.messageId].deleted = messages[t.messageId].deleted
                /\ \A v \in Users \ {t.userId} :
                      Visible(v, t.messageId)' = Visible(v, t.messageId)
       /\ \A u \in Users, m \in DOMAIN messages :
             u \in Range(messages[m].deletedFor) => ~Visible(u, m)']_vars

\* B deleted the message for themself: it is hidden from B, still returned to
\* A, and not deleted for everyone
C9_Witness ==
    /\ response = [op |-> "deleteMessage", status |-> 200]
    /\ \E m \in DOMAIN messages :
          /\ "B" \in Range(messages[m].deletedFor)
          /\ ~messages[m].deleted
          /\ ~Visible("B", m)
          /\ Visible("A", m)

\* C10: validation before persistence.  A sendMessage request whose content
\* lacks encrypted or iv, or that names neither a conversation nor a
\* recipient, is answered 400 and creates no conversation, no message, no
\* queue entry and no socket event.
C10_ValidationBeforePersistence ==
    [][\A u \in Users, c \in {0} \cup ConvIds, r \in Users \cup {None},
          content \in Contents :
          (/\ ~content.encrypted \/ ~content.iv \/ (c = 0 /\ r = None)
           /\ sendMessage_begin(u, c, r, content))
          => /\ response' = [op |-> "sendMessage", status |-> 400]
             /\ UNCHANGED <<store, queue, isRunning, hub, tasks, outputs>>]_vars

\* a request was just answered 400 while the store already held a message
C10_Witness ==
    /\ response = [op |-> "sendMessage", status |-> 400]
    /\ messages # <<>>
    /\ conversations # <<>>

\* C13: presence is exact.  In every reachable state, after any connects and
\* disconnects (several connections of one user included), isUserOnline(u)
\* is true exactly when u has at least one live connection to the hub.
C13_PresenceExact ==
    \A u \in Users : isUserOnline(u) <=> UserRoom(u) # {}

\* C14: offline grace window.  The delayed offline broadcast of a disconnect
\* is suppressed when the user is connected as the timer fires: no timer step
\* broadcasts `offline` for a user who has a live connection.
C14_NoOfflineWhileConnected ==
    [][\A u \in Users :
          (/\ CopiesIn(u, timers') < CopiesIn(u, timers)
           /\ statusEvent' # statusEvent
           /\ statusEvent' = [userId |-> u, status |-> "offline"])
          => UserRoom(u)' = {}]_vars

\* C15: socket authentication.  A handshake is admitted only with a token
\* that is present and verifies, for a user that exists and is neither
\* suspended nor banned; a missing, an expired and an invalid token and a
\* suspended or banned account are each refused with their own reason; a
\* refused handshake registers no presence, joins no room and broadcasts
\* nothing.
C15_SocketAuthentication ==
    [][\A u \in Users, token \in TokenKinds, found \in Lookups :
          handshake(u, token, found)
          => /\ authResult' = "admitted" <=> (token = "valid" /\ found = "active")
             /\ token = "missing" => authResult' = "Authentication token required"
             /\ token = "expired" => authResult' = "Token expired"
             /\ token = "invalid" => authResult' = "Invalid token"
             /\ (token = "valid" /\ found \in {"suspended", "banned"})
                => authResult' = "Account suspended"
             /\ authResult' # "admitted"
                => UNCHANGED <<connectedUsers, sockets, timers, statusEvent>>
             /\ authResult' = "admitted"
                => /\ isUserOnline(u)'
                   /\ Cardinality(sockets') = Cardinality(sockets) + 1]_vars

\* a banned account's handshake was just refused while another user is
\* connected, and nothing was registered for a second user
C15_Witness ==
    /\ authResult = "Account suspended"
    /\ Cardinality(sockets) = 1
    /\ Cardinality(connectedUsers) = 1

\* the user is a participant of the conversation the message belongs to
Participant(userId, messageId) ==
    userId \in conversations[messages[messageId].conversationId].participants

\* C16: non-participant requests change nothing.  A sendMessage by
\* conversation id, a markRead and a deleteMessage of a user who is not a
\* participant of the conversation are each rejected, leave every message's
\* status, readBy, deleted and deletedFor as they were and emit no receipt
\* event.
C16_NonParticipantChangesNothing ==
    [][/\ \A u \in Users, c \in DOMAIN conversations :
             (/\ u \notin conversations[c].participants
              /\ sendMessage_begin(u, c, None, [encrypted |-> TRUE, iv |-> TRUE]))
             => /\ response' = [op |-> "sendMessage", status |-> 403]
                /\ UNCHANGED <<messages, sends, outputs>>
       /\ \A t \in BagToSet(reads) :
             (/\ CopiesIn(t, reads') < CopiesIn(t, reads)
              /\ ~Participant(t.userId, t.messageId))
             => /\ response'.status # 200
                /\ UNCHANGED <<messages, outputs>>
       /\ \A t \in BagToSet(deletes) :
             (/\ CopiesIn(t, deletes') < CopiesIn(t, deletes)
              /\ ~Participant(t.userId, t.messageId))
             => /\ response'.status # 200
                /\ UNCHANGED <<messages, outputs>>]_vars

\* C17: push or queue.  Once sendMessage has completed successfully for a
\* message, the message has been pushed to a live connection of its recipient
\* or has a delivery-queue entry under that recipient; never neither.
C17_PushedOrQueued ==
    \A m \in DOMAIN messages :
        (/\ messages[m].recipient # None
         /\ \A t \in BagToSet(sends) : t.messageId # m)
        => \/ received[m] >= 1
           \/ CountEntries(QueuedUnder(queue, messages[m].recipient), m) >= 1

\* C20: for every conversation, limit, pair of cursors and requester,
\* getConversationMessages returns at most `limit` messages, newest first,
\* all of that conversation, none deleted for everyone or deleted for the
\* requester, and each one older than `before` when `before` is given and
\* newer than `after` when `after` is given, also when both are given.
C20_PageSatisfiesCursors ==
    \A c \in DOMAIN conversations, limit \in 1..MaxLimit,
       before \in Cursors, after \in Cursors, u \in Users :
        LET page == getConversationMessagesOpts(c, limit, before, after, u)
        IN /\ Len(page) <= limit
           /\ \A i \in 1..(Len(page) - 1) : page[i] > page[i + 1]
           /\ \A i \in DOMAIN page :
                 /\ messages[page[i]].conversationId = c
                 /\ ~messages[page[i]].deleted
                 /\ u \notin Range(messages[page[i]].deletedFor)
                 /\ before # 0 => page[i] < before
                 /\ after # 0 => page[i] > after

\* C12: encryption round trip.  On the client and on the server, decrypting
\* what encrypt returned for plaintext P under key K, with K, returns P.
C12_RoundTrip ==
    (opened.side # "none" /\ opened.key = sealed.key)
    => /\ opened.result.ok
       /\ opened.result.text = sealed.plaintext

\* a and b have exchanged public keys and each has derived the shared key
exchanged(a, b) ==
    /\ keyStore[a][userKeyName(b)] = sharedKey(a, b)
    /\ keyStore[b][userKeyName(a)] = sharedKey(a, b)

\* the key a content was sealed with
sealedWith(content) == base64ToArrayBuffer(content.body.encrypted).key

\* C11: end to end.  Once A and B have exchanged public keys and derived the
\* shared key, a message one of them sends in their conversation is encrypted
\* with that shared key; when the other's session handles the push it finds
\* a key for the conversation, its copy holds the sender's plaintext, and it
\* emits the delivered receipt for the sender.
C11_EndToEnd ==
    [][/\ \A p \in BagToSet(posts') :
             (/\ CopiesIn(p, posts') > CopiesIn(p, posts)
              /\ p.conversationId \in DOMAIN conversations
              /\ \E b \in conversations[p.conversationId].participants :
                    b # p.userId /\ exchanged(p.userId, b))
             => \E b \in conversations[p.conversationId].participants :
                   sealedWith(p.content) = sharedKey(p.userId, b)
       /\ \A m \in DOMAIN messages :
             (/\ handled'[m] = handled[m] + 1
              /\ exchanged(messages[m].sender, messages[m].recipient))
             => /\ keyStore[messages[m].recipient]
                           [conversationKeyName(messages[m].conversationId)] # NoKey
                /\ \E copy \in Range(clientMessages'[messages[m].recipient]) :
                      /\ copy.messageId = m
                      /\ copy.decryptedContent.ok
                      /\ utf8Encode(copy.decryptedContent.text) =
                            base64ToArrayBuffer(messages[m].content.body.encrypted).data
                /\ emits'[m] = emits[m] + 1]_vars

\* the store holds the receipt of the message's recipient
recorded(m, event) ==
    /\ m \in DOMAIN messages
    /\ IF event = "message:delivered"
       THEN /\ messages[m].status \in {"delivered", "read"}
            /\ messages[m].recipient \in Range(messages[m].deliveredTo)
       ELSE /\ messages[m].status = "read"
            /\ messages[m].recipient \in Range(messages[m].readBy)

\* C18: receipts reach the store.  After the recipient's session has emitted
\* `message:delivered` (`message:read`) for a message, the stored message
\* eventually has status delivered (read) and a delivery (read) record of the
\* recipient.  A message that was read before its delivery receipt keeps
\* status read, as markDelivered leaves a status other than sent alone.
C18_ReceiptsReachStore ==
    \A m \in MsgIds, event \in {"message:delivered", "message:read"} :
        (\E r \in BagToSet(receipts) :
            /\ r.event = event
            /\ r.messageId = m
            /\ r.userId = messages[m].recipient)
        ~> recorded(m, event)

\* C19: a session emits exactly one `message:delivered` for every
\* `message:new` it receives and for every message of a `messages:pending`
\* batch, with or without a key for the conversation and whether or not
\* decryption succeeds.
C19_OneReceiptPerInbound ==
    [][/\ \A m \in DOMAIN messages :
             handled'[m] = handled[m] + 1 => emits'[m] = emits[m] + 1
       /\ \A ev \in BagToSet(inbound) :
             CopiesIn(ev, inbound') < CopiesIn(ev, inbound)
             => emits'[ev.messageId] = emits[ev.messageId] + 1]_vars


\* C27: markRead promotes unconditionally.  Whenever a markRead of message m
\* for user u completes, the status of m is read, also when u already had a
\* read record on m.
C27_MarkReadPromotes ==
    [][\A t \in BagToSet(reads) :
          CopiesIn(t, reads') < CopiesIn(t, reads)
          => messages'[t.messageId].status = "read"]_vars


\* C29: softDelete.  A delete for everyone sets the deleted flag, and no step
\* ever resets a deleted flag; a delete for user u leaves u in the message's
\* delete-for-me list exactly once, however often it is repeated, and never
\* sets the deleted flag.
C29_SoftDelete ==
    [][/\ \A m \in DOMAIN messages : messages[m].deleted => messages'[m].deleted
       /\ \A t \in BagToSet(deletes) :
             (/\ CopiesIn(t, deletes') < CopiesIn(t, deletes)
              /\ deleteMessageStatus(t.userId, t.forEveryone, t.doc) = 200)
             => IF t.forEveryone
                THEN messages'[t.messageId].deleted
                ELSE /\ Count(messages'[t.messageId].deletedFor, t.userId) = 1
                     /\ messages'[t.messageId].deleted
                            = messages[t.messageId].deleted]_vars

\* C30: receipt records are unique.  In every reachable state each message
\* has at most one delivery record and at most one read record per user.
C30_ReceiptRecordsUnique ==
    \A m \in DOMAIN messages, u \in Users :
        /\ Count(messages[m].deliveredTo, u) <= 1
        /\ Count(messages[m].readBy, u) <= 1


\* C28: markAllRead(u, c), as getMessages runs it, sets to read exactly the
\* messages of conversation c addressed to u whose status is sent or
\* delivered, leaves every other message as it was (those of other
\* conversations and those u sent among them), and right afterwards
\* getUnreadCount(u, c) is 0.
C28_MarkAllRead ==
    [][\A u \in Users, c \in ConvIds :
          (getMessages(u, c) /\ response'.status = 200)
          => /\ \A m \in DOMAIN messages :
                   IF /\ messages[m].conversationId = c
                      /\ messages[m].recipient = u
                      /\ messages[m].status \in {"sent", "delivered"}
                   THEN messages'[m].status = "read"
                   ELSE messages'[m] = messages[m]
             /\ getUnreadCount(u, c)' = 0]_vars

\* B opened one conversation: its message to B is read, and a message to B in
\* another conversation is still unread
C28_Witness ==
    /\ response = [op |-> "getMessages", status |-> 200]
    /\ \E m1, m2 \in DOMAIN messages :
          /\ messages[m1].recipient = "B" /\ messages[m2].recipient = "B"
          /\ messages[m1].conversationId # messages[m2].conversationId
          /\ messages[m1].status = "read" /\ "B" \in Range(messages[m1].readBy)
          /\ messages[m2].status \in {"sent", "delivered"}
          /\ getUnreadCount("B", 0) = 1


\* the retry count of the user's queue entry for the message
retriesOf(q, userId, messageId) ==
    LET arr == QueuedUnder(q, userId)
    IN arr[CHOOSE i \in DOMAIN arr : arr[i].messageId = messageId].retries

\* C24: queue entry removal.  An entry leaves the queue only in a step of a
\* run of processQueue that pushed the entry's message and marked it delivered,
\* or when its retry count has reached the ceiling; no entry is lost
\* otherwise, also when queueMessage appends while a run is suspended and when
\* two runs overlap.
C24_EntryRemoval ==
    [][\A u \in Users, m \in MsgIds :
          (/\ CountEntries(QueuedUnder(queue, u), m) > 0
           /\ CountEntries(QueuedUnder(queue', u), m) = 0)
          => \/ \E t \in BagToSet(sweeps) :
                   /\ CopiesIn(t, sweeps') < CopiesIn(t, sweeps)
                   /\ m \in t.delivered
             \/ retriesOf(queue, u, m) >= maxRetries]_vars


queued(m) ==
    /\ m \in DOMAIN messages
    /\ CountEntries(QueuedUnder(queue, messages[m].recipient), m) > 0

\* the message was pushed to a connection of its recipient and holds the
\* recipient's delivery record, or the recipient has read it
reachedRecipient(m) ==
    /\ m \in DOMAIN messages
    /\ \/ messages[m].recipient \in Range(messages[m].readBy)
       \/ /\ received[m] >= 1
          /\ messages[m].status \in {"delivered", "read"}
          /\ messages[m].recipient \in Range(messages[m].deliveredTo)

\* C21: eventual delivery.  If from some point on B is connected for good,
\* then every message queued for B is eventually pushed to a connection of B
\* and marked delivered for B (the worker keeps running and the store calls
\* succeed).  A message B has read over REST in the meantime is taken as
\* delivered.
C21_EventualDelivery ==
    <>[](isUserOnline("B") /\ UserRoom("B") # {})
    => \A m \in MsgIds :
          [](queued(m) => <>reachedRecipient(m))

\* C26: the queue drains.  If from some point on B is online for good, then
\* no entry queued for B stays in the queue forever, whatever became of its
\* message meanwhile.
C26_QueueDrains ==
    <>[](isUserOnline("B"))
    => \A m \in MsgIds : []<>(CountEntries(QueuedUnder(queue, "B"), m) = 0)


\* C22: inbound handling never crashes.  Whenever a session handles a
\* `message:new`, in the shape the REST handler and the sweep push or in the
\* shape the message:send handler relays, it appends exactly one entry for
\* the message to its view of the conversation, and that entry has no
\* plaintext when the session has no key for the conversation or the
\* decryption fails.
C22_InboundNeverCrashes ==
    [][LET appended(userId, m) ==
               LET view == clientMessages'[userId]
                   key == keyStore[userId][conversationKeyName(messages[m].conversationId)]
               IN /\ Len(view) = Len(clientMessages[userId]) + 1
                  /\ SubSeq(view, 1, Len(view) - 1) = clientMessages[userId]
                  /\ view[Len(view)].messageId = m
                  /\ view[Len(view)].conversationId = messages[m].conversationId
                  /\ (key = NoKey \/ decrypt(messages[m].content.body, key) = Failed)
                        => view[Len(view)].decryptedContent = Failed
       IN /\ \A m \in DOMAIN messages :
                handled'[m] = handled[m] + 1 => appended(messages[m].recipient, m)
          /\ \A ev \in BagToSet(inbound) :
                CopiesIn(ev, inbound') < CopiesIn(ev, inbound)
                => appended(ev.to, ev.messageId)]_vars


\* C23: optimistic reconciliation.  Whenever a session's sendMessage resolves
\* with the server's message m, the sender's view of the conversation holds
\* exactly one entry for m, that entry carries the plaintext that was sent,
\* and no `local_` entry of this send is left, whatever `message:new` events
\* and other sends came in between.
C23_OptimisticReconciliation ==
    [][\A p \in BagToSet(posts), m \in DOMAIN messages :
          (/\ CopiesIn(p, posts') < CopiesIn(p, posts)
           /\ m \in answered(p)
           /\ messages[m].recipient # None
           /\ clientMessages'[p.userId] = reconciled(clientMessages[p.userId], p, m))
          => LET view == clientMessages'[p.userId]
                 entries == {i \in DOMAIN view :
                                /\ view[i].conversationId = p.conversationId
                                /\ view[i].messageId = m}
             IN /\ Cardinality(entries) = 1
                /\ \A i \in entries :
                      view[i].decryptedContent = [ok |-> TRUE, text |-> p.text]
                /\ \A i \in DOMAIN view :
                      ~(view[i].messageId = 0 /\ view[i].localId = p.localId)]_vars


\* C34: a message deleted for everyone is never pushed afterwards.  Once the
\* deleted flag of a message is set, no step of the periodic sweep or of
\* deliverPendingMessages pushes the message to its recipient.
C34_DeletedNeverPushed ==
    [][\A m \in DOMAIN messages :
          (messages[m].deleted /\ sends' = sends) => emitted'[m] = emitted[m]]_vars

\* C35: delivered implies pushed to a live connection.  Whenever a step of
\* the sweep or of deliverPendingMessages marks a message delivered, its
\* recipient is online at that step and the push reaches one of the
\* recipient's connections.
C35_DeliveredImpliesPushed ==
    [][\A m \in DOMAIN messages :
          (/\ messages[m].status # "delivered"
           /\ messages'[m].status = "delivered"
           /\ sends' = sends)
          => /\ isUserOnline(messages[m].recipient)
             /\ received'[m] = received[m] + 1]_vars


\* C36: every persisted message's recipient is a participant of the
\* message's conversation and is not the message's sender, also when the
\* request named both a conversation and a recipient.
C36_RecipientIsOtherParticipant ==
    \A m \in DOMAIN messages :
        /\ messages[m].recipient \in conversations[messages[m].conversationId].participants
        /\ messages[m].recipient # messages[m].sender


\* C39: conversation-scoped events reach only participants.  Every
\* connection in a conversation's room belongs to a participant of the
\* conversation; every `message:new` on its way to a connection goes to a
\* participant of the message's conversation; and every relayed receipt
\* comes from a participant and reaches participants only.
C39_RoomsHoldParticipantsOnly ==
    /\ \A s \in sockets : \A c \in s.rooms \cap DOMAIN conversations :
          s.userId \in conversations[c].participants
    /\ \A ev \in BagToSet(inbound) :
          ev.to \in conversations[messages[ev.messageId].conversationId].participants
    /\ \A r \in relayedReceipts :
          LET members == conversations[messages[r.messageId].conversationId].participants
          IN r.by \in members /\ r.reached \subseteq members


\* C33: a failed client send aborts only that send.  Whenever a session's
\* sendMessage ends because the socket is not connected or because
\* encryption threw, it returns null, the views of all conversations are as
\* they were, no REST call was made and nothing was stored, and no socket
\* event was emitted.
C33_FailedSendAbortsOnlyItself ==
    [][(returned' # returned /\ returned'.at \in {"connected", "encrypt"})
       => /\ returned'.value = "null"
          /\ clientMessages' = clientMessages
          /\ posts' = posts
          /\ sends' = sends
          /\ messages' = messages /\ conversations' = conversations
          /\ queue' = queue
          /\ inbound' = inbound /\ receipts' = receipts /\ keyEvents' = keyEvents
          /\ emitted' = emitted]_vars

\* a send has failed at encryption in a session that lists messages and has
\* a REST call under way
C33_Witness ==
    /\ returned = [value |-> "null", at |-> "encrypt"]
    /\ clientMessages["A"] # <<>>
    /\ posts # EmptyBag

\* C40: every optimistic local message leaves `sending`.  The end of the
\* sendMessage call is the last point at which the entry is replaced by the
\* server's message or marked failed: a session with no sendMessage call
\* under way lists no entry in status sending.
C40_SendingEnds ==
    \A u \in Users :
        (\A p \in BagToSet(posts) : p.userId # u)
        => \A i \in DOMAIN clientMessages[u] : clientMessages[u][i].status # "sending"


\* C38: the local message status is monotonic.  No step moves the status of
\* an entry of a session's view backwards along sending, sent, delivered,
\* read, whatever the order in which `message:delivered`, `message:read` and
\* `messages:read` arrive.
C38_LocalStatusMonotonic ==
    [][LET rank == [sending |-> 0, sent |-> 1, delivered |-> 2, read |-> 3]
       IN \A u \in Users :
             \A i \in DOMAIN clientMessages[u] \cap DOMAIN clientMessages'[u] :
                rank[clientMessages'[u][i].status] >= rank[clientMessages[u][i].status]]_vars


\* C31: typing debounce.  A session has at most one auto-stop timer pending
\* per conversation; every typing:start it emits is followed by a
\* typing:stop for the same conversation; and once a typing:stop is the last
\* event emitted for a conversation no timer is pending for it, so that an
\* explicit stop is not followed by a second one from the timer.
C31_TypingDebounce ==
    /\ [](\A u \in Users, c \in ConvIds : Cardinality(pendingTimeouts(u, c)) <= 1)
    /\ \A u \in Users, c \in ConvIds :
          (lastTyping[u][c] = "start") ~> (lastTyping[u][c] = "stop")
    /\ [](\A u \in Users, c \in ConvIds :
             lastTyping[u][c] = "stop" => pendingTimeouts(u, c) = {})

\* A's session has emitted a second typing:start for a conversation while the
\* timer of the first was pending, and then lost its connection
C31_Witness ==
    /\ lastTyping["A"][1] = "start"
    /\ typingTimeoutRef["A"][1] = 2
    /\ pendingTimeouts("A", 1) # {}
    /\ ~socketConnected("A")

\* C37: the typing indicator clears on the receiving client.  When a session
\* has handled a relayed typing:stop of user X for a conversation, X is not
\* in its typingUsers of that conversation; and X is never listed twice.
C37_TypingClears ==
    [][/\ \A ev \in BagToSet(typingEvents) :
             (CopiesIn(ev, typingEvents') < CopiesIn(ev, typingEvents)
              /\ ev.event = "typing:stop")
             => \A i \in DOMAIN typingUsers'[ev.to][ev.conversationId] :
                   typingUsers'[ev.to][ev.conversationId][i] # Usernames[ev.userId]
       /\ \A u \in Users, c \in ConvIds :
             \A i, j \in DOMAIN typingUsers'[u][c] :
                typingUsers'[u][c][i] = typingUsers'[u][c][j] => i = j]_vars


\* C32: a dependency failure does not fail the send.  A request of the send
\* route awaits the notification dependency only with its message already
\* stored; it is answered 201 with that message, with notificationDelivered
\* false when the dependency call failed; and no step removes or changes a
\* stored message.
C32_DependencyFailureTolerated ==
    [][/\ \A t \in BagToSet(notifying') :
             t.messageId \in DOMAIN mockMessages'
       /\ \A t \in BagToSet(notifying) :
             (t.pc = "respond" /\ CopiesIn(t, notifying') < CopiesIn(t, notifying))
             => /\ response'.status = 201
                /\ response'.message = t.messageId
                /\ t.dependencyFailed => ~response'.notificationDelivered
       /\ \A m \in DOMAIN mockMessages :
             m \in DOMAIN mockMessages' /\ mockMessages'[m] = mockMessages[m]]_vars

\* a request was answered 201 without a delivered notification, and the
\* dependency call of another request has failed
C32_Witness ==
    /\ response.op = "postMessage" /\ response.status = 201
    /\ ~response.notificationDelivered
    /\ Len(mockMessages) = 2
    /\ \E t \in BagToSet(notifying) : t.pc = "respond" /\ t.dependencyFailed

====
